---- MODULE Spec2Model ----
(***************************************************************************)
(* Model of the product catalog: the search path (the /products route, the *)
(* /product/:sku route, the /health route and the query functions of       *)
(* models/product.js), the connection pool of config/database.js, the      *)
(* pagination links, and the CSV import script, batched and row by row,    *)
(* which runs as a process of its own and writes the products and          *)
(* import_history tables.  Further the two scripts that set the schema up  *)
(* (schema.sql and setup-database.js) with the search index each of them   *)
(* defines, the ingest script that imports the files of data/inbox and     *)
(* moves them to data/done or data/failed, and the life of the server      *)
(* process: its startup query, the errors of idle clients, and the         *)
(* shutdown on SIGTERM and SIGINT.                                         *)
(*                                                                         *)
(* Strings are sequences of one-character tokens, so that trimming,        *)
(* tokenizing and parseInt are computed and not assumed.  JavaScript's     *)
(* undefined and null, and SQL's NULL, are the reserved one-element        *)
(* sequences Undefined and Null, which no string built of one-character    *)
(* tokens can equal.                                                       *)
(***************************************************************************)
EXTENDS Integers, Sequences, FiniteSets, TLC

VARIABLES
    products,    \* the products table: a set of rows, at most one per sku
    pc,          \* where the request handler is: the store call it awaits next
    route,       \* which handler serves the request
    reqQuery,    \* req.query / req.params as received: q, manufacturer, category, page, sku
    locals,      \* the handler's local variables
    calls,       \* the store calls issued for this request, in order
    hung,        \* the store accepted the last call and never answers it
    res,         \* the HTTP response
    conn,        \* the request's store call in flight has its pool connection
    checkedOut,  \* the connections of the pool that are checked out
    others,      \* the store calls of other requests that hold a connection
    imp,         \* the import script's process: position, locals, client
    import_history,  \* the import_history table: a sequence of rows
    store,       \* the store: which script set its schema up, whether it is reachable
    ingest,      \* the ingest script's process and the inbox, done and failed folders
    srv          \* the server process: listening, shutting down, exited

vars == <<products, pc, route, reqQuery, locals, calls, hung, res,
          conn, checkedOut, others, imp, import_history, store, ingest, srv>>

----------------------------------------------------------------------------
(* Bounds of the model.                                                    *)

NumSkus == 2

(* Program constants.                                                      *)

PageSize == 48

\* new Pool({ max: 20, ... })
PoolMax == 20

----------------------------------------------------------------------------
(* JavaScript and SQL values.                                              *)

Undefined == <<"undefined">>
Null == <<"null">>
EmptyString == <<>>
SP == " "

\* JavaScript truthiness of a string-or-missing value: undefined, null and ''
\* are falsy, every other string (also ' ') is truthy.
Truthy(v) == v # Undefined /\ v # Null /\ v # EmptyString

\* a || b
OrElse(a, b) == IF Truthy(a) THEN a ELSE b

RECURSIVE TrimStart(_)
TrimStart(s) ==
    IF s # <<>> /\ Head(s) = SP THEN TrimStart(Tail(s)) ELSE s

RECURSIVE TrimEnd(_)
TrimEnd(s) ==
    IF s # <<>> /\ s[Len(s)] = SP THEN TrimEnd(SubSeq(s, 1, Len(s) - 1)) ELSE s

\* String.prototype.trim
Trim(s) == TrimEnd(TrimStart(s))

Digits == {"0", "1", "2", "3"}
DigitVal(c) == CASE c = "0" -> 0 [] c = "1" -> 1 [] c = "2" -> 2 [] c = "3" -> 3

RECURSIVE DigitPrefix(_, _)
DigitPrefix(s, acc) ==
    IF s # <<>> /\ Head(s) \in Digits
    THEN DigitPrefix(Tail(s), acc * 10 + DigitVal(Head(s)))
    ELSE acc

NaN == [nan |-> TRUE, n |-> 0]

\* parseInt(v): leading white space skipped, an optional sign, then the longest
\* prefix of digits; NaN when there is no digit (also for undefined).
ParseInt(v) ==
    IF v = Undefined \/ v = Null THEN NaN
    ELSE LET s == TrimStart(v)
             neg == s # <<>> /\ Head(s) = "-"
             t == IF s # <<>> /\ Head(s) \in {"-", "+"} THEN Tail(s) ELSE s
         IN  IF t = <<>> \/ Head(t) \notin Digits THEN NaN
             ELSE [nan |-> FALSE,
                   n |-> IF neg THEN 0 - DigitPrefix(t, 0) ELSE DigitPrefix(t, 0)]

\* parseInt(v) || 1: NaN and 0 are falsy.
ParsePage(v) ==
    LET r == ParseInt(v) IN IF r.nan \/ r.n = 0 THEN 1 ELSE r.n

\* Math.ceil(a / b) for a >= 0, b > 0
CeilDiv(a, b) == (a + b - 1) \div b

----------------------------------------------------------------------------
(* Text search: to_tsvector, plainto_tsquery, @@ and ts_rank.  A lexeme is *)
(* a word token; white space, punctuation and markup tags yield none.      *)
(* German stemming and stop words are not modelled.                        *)

WordTokens == {"a", "b", "x", "y", "z", "c", "d", "1", "2", "3", "4"}

IsTag(tok) == tok \in {"<p>", "</p>"}

RECURSIVE StripTags(_)
\* regexp_replace(description, '<[^>]+>', '', 'g')
StripTags(s) ==
    IF s = <<>> THEN <<>>
    ELSE IF IsTag(Head(s)) THEN StripTags(Tail(s))
    ELSE <<Head(s)>> \o StripTags(Tail(s))

\* coalesce(v, '')
Coalesce(v) == IF v = Null THEN EmptyString ELSE v

\* to_tsvector('german', s): the set of lexemes of s
ToTsvector(s) == {s[i] : i \in {j \in 1..Len(s) : s[j] \in WordTokens}}

\* plainto_tsquery('german', s): the lexemes of s, ANDed
PlaintoTsquery(s) == ToTsvector(s)

\* The generated column search_vector of schema.sql: four weighted groups.
SearchVector(r) ==
    [A |-> ToTsvector(Coalesce(r.name)) \cup ToTsvector(Coalesce(r.variant_name)),
     B |-> ToTsvector(Coalesce(r.manufacturer)) \cup ToTsvector(Coalesce(r.product_group)),
     C |-> ToTsvector(Coalesce(r.sku)),
     D |-> ToTsvector(StripTags(Coalesce(r.description)))]

\* The function products_search_trigger of setup-database.js, which the
\* trigger tsvector_update runs BEFORE INSERT OR UPDATE: name, manufacturer,
\* category and sku, in this order of weight.
TriggerVector(r) ==
    [A |-> ToTsvector(Coalesce(r.name)),
     B |-> ToTsvector(Coalesce(r.manufacturer)),
     C |-> ToTsvector(Coalesce(r.category)),
     D |-> ToTsvector(Coalesce(r.sku))]

\* A search_vector column that nothing fills: NULL, which matches no query.
NoVector == [A |-> {}, B |-> {}, C |-> {}, D |-> {}]

Lexemes(v) == v.A \cup v.B \cup v.C \cup v.D

\* search_vector @@ tsquery: every term of the query is a lexeme of the
\* vector; a query without terms matches no row.
TsMatch(v, tsq) == tsq # {} /\ tsq \subseteq Lexemes(v)

\* ts_rank(search_vector, tsquery), in tenths: each matched term scores the
\* weights of the groups it occurs in (D 0.1, C 0.2, B 0.4, A 1.0).
TermRank(v, t) ==
    (IF t \in v.A THEN 10 ELSE 0) + (IF t \in v.B THEN 4 ELSE 0)
    + (IF t \in v.C THEN 2 ELSE 0) + (IF t \in v.D THEN 1 ELSE 0)

RECURSIVE SumRank(_, _)
SumRank(v, tsq) ==
    IF tsq = {} THEN 0
    ELSE LET t == CHOOSE x \in tsq : TRUE
         IN  TermRank(v, t) + SumRank(v, tsq \ {t})

TsRank(v, tsq) == SumRank(v, tsq)

----------------------------------------------------------------------------
(* The store's schema.  Two scripts set it up: schema.sql (psql -f, the     *)
(* init-db script) and setup-database.js (the setup-db script, run by      *)
(* deploy-railway.sh).  A schema is what the scripts leave behind: whether *)
(* the products table exists, whether it has the product_group column,     *)
(* whether import_history exists, whether search_vector is the generated   *)
(* column, and whether the trigger tsvector_update is on the table.        *)

NoSchema ==
    [table |-> FALSE, product_group |-> FALSE, history |-> FALSE,
     generated |-> FALSE, trigger |-> FALSE]

\* schema.sql: DROP TABLE IF EXISTS ... CASCADE (the trigger goes with the
\* table), then products with the generated column, and import_history.
SchemaSql ==
    [table |-> TRUE, product_group |-> TRUE, history |-> TRUE,
     generated |-> TRUE, trigger |-> FALSE]

\* setup-database.js as listed creates products without product_group and no
\* import_history; as deployed (the session notes: "Added product_group
\* column and import_history table") it has both.
SetupVersions == {"listed", "deployed"}

\* setup-database.js over schema s: CREATE TABLE IF NOT EXISTS and ADD COLUMN
\* IF NOT EXISTS leave an existing table and an existing search_vector as
\* they are; the trigger is created in every case.
SetupDatabase(s, version) ==
    [table |-> TRUE,
     product_group |-> IF s.table THEN s.product_group \/ version = "deployed"
                                  ELSE version = "deployed",
     history |-> s.history \/ version = "deployed",
     generated |-> s.generated,
     trigger |-> TRUE]

\* The search_vector a written row gets.  A generated column is computed
\* after the BEFORE triggers, whose assignment to it is discarded; a plain
\* column takes what the trigger assigns.
IndexOnWrite(s, r) ==
    IF s.generated THEN SearchVector(r)
    ELSE IF s.trigger THEN TriggerVector(r)
    ELSE NoVector

\* The INSERT of the import scripts names product_group.
CanInsert(s) == s.table /\ s.product_group

\* The store as schema.sql leaves it, reachable.
SchemaSqlStore == [schema |-> SchemaSql, reachable |-> TRUE]

----------------------------------------------------------------------------
(* The products table.  A row carries the columns the queries read; id,    *)
(* manufacturer_number, image_url, created_at and updated_at are read by   *)
(* no predicate, ordering or grouping and are left out.                    *)

Skus == {<<ToString(i)>> : i \in 1..NumSkus}

\* The descriptive columns a row may carry.
ProductShapes ==
    { [name |-> <<"a">>, variant_name |-> Null, manufacturer |-> <<"x">>,
       product_group |-> Null, description |-> <<"<p>", "b", "</p>">>,
       category |-> <<"c">>],
      [name |-> <<"a", SP, "b">>, variant_name |-> Null, manufacturer |-> <<"x">>,
       product_group |-> Null, description |-> <<"<p>", "b", "</p>">>,
       category |-> <<"d">>],
      [name |-> <<"a">>, variant_name |-> Null, manufacturer |-> <<"y">>,
       product_group |-> Null, description |-> Null, category |-> Null] }

\* The row r with its search_vector column
WithIndex(r, v) ==
    [sku |-> r.sku, name |-> r.name, variant_name |-> r.variant_name,
     manufacturer |-> r.manufacturer, product_group |-> r.product_group,
     description |-> r.description, category |-> r.category,
     active |-> r.active, search_vector |-> v]

\* A row of a table set up by schema.sql
Row(sku, shape, active) ==
    LET r == [sku |-> sku, name |-> shape.name, variant_name |-> shape.variant_name,
              manufacturer |-> shape.manufacturer, product_group |-> shape.product_group,
              description |-> shape.description, category |-> shape.category,
              active |-> active]
    IN  WithIndex(r, SearchVector(r))

Rows == {Row(s, sh, a) : s \in Skus, sh \in ProductShapes, a \in BOOLEAN}

\* sku VARCHAR(100) UNIQUE NOT NULL
SkuUnique(table) == \A r1, r2 \in table : r1.sku = r2.sku => r1 = r2

Catalogs == {t \in SUBSET Rows : SkuUnique(t)}

\* The largest table of the catalogs that span more than one page.
MaxRows == 50

NameTokens == <<"c", "d", "x", "y">>

\* The k-th of 64 three-word names, in ascending order of name.
LongName(k) ==
    <<NameTokens[((k - 1) \div 16) + 1], SP,
      NameTokens[(((k - 1) \div 4) % 4) + 1], SP,
      NameTokens[((k - 1) % 4) + 1]>>

LongRow(i, k) ==
    Row(<<ToString(i)>>,
        [name |-> LongName(k), variant_name |-> Null, manufacturer |-> <<"x">>,
         product_group |-> Null, description |-> Null, category |-> <<"c">>],
        TRUE)

\* n active products with names in ascending order of sku; with sameName the
\* 49th product carries the name of the 48th.
LongCatalog(n, sameName) ==
    {LongRow(i, IF sameName /\ i = PageSize + 1 THEN PageSize ELSE i) : i \in 1..n}

LongCatalogs == {LongCatalog(n, t) : n \in PageSize..MaxRows, t \in BOOLEAN}

----------------------------------------------------------------------------
(* Order of strings and of rows.                                           *)

TokenOrd(c) ==
    CASE c = SP -> 0 [] c = "a" -> 1 [] c = "b" -> 2 [] c = "c" -> 3
      [] c = "d" -> 4 [] c = "x" -> 5 [] c = "y" -> 6 [] c = "z" -> 7
      [] OTHER -> 8

RECURSIVE StrLeq(_, _)
\* s <= t in the lexicographic order of ORDER BY ... ASC
StrLeq(s, t) ==
    IF s = <<>> THEN TRUE
    ELSE IF t = <<>> THEN FALSE
    ELSE IF Head(s) = Head(t) THEN StrLeq(Tail(s), Tail(t))
    ELSE TokenOrd(Head(s)) < TokenOrd(Head(t))

\* The sequences that list every element of S once.
Orderings(S) ==
    {f \in [1..Cardinality(S) -> S] : \A i, j \in 1..Cardinality(S) : f[i] = f[j] => i = j}

\* LIMIT lim OFFSET off of a row sequence
Window(seq, lim, off) ==
    IF off >= Len(seq) THEN <<>>
    ELSE SubSeq(seq, off + 1, IF off + lim < Len(seq) THEN off + lim ELSE Len(seq))

----------------------------------------------------------------------------
(* The SQL that models/product.js builds.  A statement is the list of the  *)
(* predicates of its WHERE clause, each naming its placeholder ($n, 0 for  *)
(* none), its ORDER BY, and the placeholders of LIMIT and OFFSET; the      *)
(* bound values travel beside it in params.                                *)

\* WHERE active = true replaced by a predicate that holds of every row.
ActivePredMissing == [col |-> "sku", op |-> "IS NOT NULL", ph |-> 0]

ActivePred == [col |-> "active", op |-> "= true", ph |-> 0]
FtsPred(i) == [col |-> "search_vector", op |-> "@@ plainto_tsquery", ph |-> i]
EqPred(col, i) == [col |-> col, op |-> "=", ph |-> i]
NotNullPred(col) == [col |-> col, op |-> "IS NOT NULL", ph |-> 0]

\* The text test without the trim: any non-empty text counts as a filter.
HasTextUntrimmed(query) == Truthy(query)

\* query && query.trim() !== ''
HasText(query) == Truthy(query) /\ Trim(query) # EmptyString

\* The result query with the manufacturer filter applied only when there is
\* no text: the filters are no longer independent.
ResultSqlTextOnly(query, manufacturer, category, page, limit) ==
    LET s0 == [where |-> <<ActivePred>>, params |-> <<>>, paramIndex |-> 1]
        s1 == IF HasText(query)
              THEN [where |-> Append(s0.where, FtsPred(s0.paramIndex)),
                    params |-> Append(s0.params, Trim(query)),
                    paramIndex |-> s0.paramIndex + 1]
              ELSE s0
        s2 == IF Truthy(manufacturer) /\ ~HasText(query)
              THEN [where |-> Append(s1.where, EqPred("manufacturer", s1.paramIndex)),
                    params |-> Append(s1.params, manufacturer),
                    paramIndex |-> s1.paramIndex + 1]
              ELSE s1
        s3 == IF Truthy(category)
              THEN [where |-> Append(s2.where, EqPred("category", s2.paramIndex)),
                    params |-> Append(s2.params, category),
                    paramIndex |-> s2.paramIndex + 1]
              ELSE s2
        offset == (page - 1) * limit
    IN  [select |-> "*",
         where |-> s3.where,
         orderBy |-> IF HasText(query) THEN [key |-> "ts_rank", ph |-> 1]
                                       ELSE [key |-> "name", ph |-> 0],
         limitPh |-> s3.paramIndex,
         offsetPh |-> s3.paramIndex + 1,
         params |-> s3.params \o <<limit, offset>>]

\* The result query ordered by name whether or not a text is given.
ResultSqlOrderByName(query, manufacturer, category, page, limit) ==
    LET s0 == [where |-> <<ActivePred>>, params |-> <<>>, paramIndex |-> 1]
        s1 == IF HasText(query)
              THEN [where |-> Append(s0.where, FtsPred(s0.paramIndex)),
                    params |-> Append(s0.params, Trim(query)),
                    paramIndex |-> s0.paramIndex + 1]
              ELSE s0
        s2 == IF Truthy(manufacturer)
              THEN [where |-> Append(s1.where, EqPred("manufacturer", s1.paramIndex)),
                    params |-> Append(s1.params, manufacturer),
                    paramIndex |-> s1.paramIndex + 1]
              ELSE s1
        s3 == IF Truthy(category)
              THEN [where |-> Append(s2.where, EqPred("category", s2.paramIndex)),
                    params |-> Append(s2.params, category),
                    paramIndex |-> s2.paramIndex + 1]
              ELSE s2
        offset == (page - 1) * limit
    IN  [select |-> "*",
         where |-> s3.where,
         orderBy |-> [key |-> "name", ph |-> 0],
         limitPh |-> s3.paramIndex,
         offsetPh |-> s3.paramIndex + 1,
         params |-> s3.params \o <<limit, offset>>]

\* The result query with paramIndex++ forgotten in the manufacturer branch.
ResultSqlIndexKept(query, manufacturer, category, page, limit) ==
    LET s0 == [where |-> <<ActivePred>>, params |-> <<>>, paramIndex |-> 1]
        s1 == IF HasText(query)
              THEN [where |-> Append(s0.where, FtsPred(s0.paramIndex)),
                    params |-> Append(s0.params, Trim(query)),
                    paramIndex |-> s0.paramIndex + 1]
              ELSE s0
        s2 == IF Truthy(manufacturer)
              THEN [where |-> Append(s1.where, EqPred("manufacturer", s1.paramIndex)),
                    params |-> Append(s1.params, manufacturer),
                    paramIndex |-> s1.paramIndex]
              ELSE s1
        s3 == IF Truthy(category)
              THEN [where |-> Append(s2.where, EqPred("category", s2.paramIndex)),
                    params |-> Append(s2.params, category),
                    paramIndex |-> s2.paramIndex + 1]
              ELSE s2
        offset == (page - 1) * limit
    IN  [select |-> "*",
         where |-> s3.where,
         orderBy |-> IF HasText(query) THEN [key |-> "ts_rank", ph |-> 1]
                                       ELSE [key |-> "name", ph |-> 0],
         limitPh |-> s3.paramIndex,
         offsetPh |-> s3.paramIndex + 1,
         params |-> s3.params \o <<limit, offset>>]

\* searchProducts, lines 55-95: the result query.  s1, s2 and s3 are sql,
\* params and paramIndex after the text, manufacturer and category branches.
ResultSql(query, manufacturer, category, page, limit) ==
    LET s0 == [where |-> <<ActivePred>>, params |-> <<>>, paramIndex |-> 1]
        s1 == IF HasText(query)
              THEN [where |-> Append(s0.where, FtsPred(s0.paramIndex)),
                    params |-> Append(s0.params, Trim(query)),
                    paramIndex |-> s0.paramIndex + 1]
              ELSE s0
        s2 == IF Truthy(manufacturer)
              THEN [where |-> Append(s1.where, EqPred("manufacturer", s1.paramIndex)),
                    params |-> Append(s1.params, manufacturer),
                    paramIndex |-> s1.paramIndex + 1]
              ELSE s1
        s3 == IF Truthy(category)
              THEN [where |-> Append(s2.where, EqPred("category", s2.paramIndex)),
                    params |-> Append(s2.params, category),
                    paramIndex |-> s2.paramIndex + 1]
              ELSE s2
        offset == (page - 1) * limit
    IN  [select |-> "*",
         where |-> s3.where,
         orderBy |-> IF HasText(query) THEN [key |-> "ts_rank", ph |-> 1]
                                       ELSE [key |-> "name", ph |-> 0],
         limitPh |-> s3.paramIndex,
         offsetPh |-> s3.paramIndex + 1,
         params |-> s3.params \o <<limit, offset>>]

\* The count query with the category branch forgotten.
CountSqlNoCategory(query, manufacturer, category) ==
    LET c0 == [where |-> <<ActivePred>>, params |-> <<>>, countParamIndex |-> 1]
        c1 == IF HasText(query)
              THEN [where |-> Append(c0.where, FtsPred(c0.countParamIndex)),
                    params |-> Append(c0.params, Trim(query)),
                    countParamIndex |-> c0.countParamIndex + 1]
              ELSE c0
        c2 == IF Truthy(manufacturer)
              THEN [where |-> Append(c1.where, EqPred("manufacturer", c1.countParamIndex)),
                    params |-> Append(c1.params, manufacturer),
                    countParamIndex |-> c1.countParamIndex + 1]
              ELSE c1
    IN  [select |-> "COUNT(*)", where |-> c2.where, params |-> c2.params]

\* searchProducts, lines 99-117: the count query, built a second time with
\* countParams and countParamIndex (not incremented after the last branch).
CountSql(query, manufacturer, category) ==
    LET c0 == [where |-> <<ActivePred>>, params |-> <<>>, countParamIndex |-> 1]
        c1 == IF HasText(query)
              THEN [where |-> Append(c0.where, FtsPred(c0.countParamIndex)),
                    params |-> Append(c0.params, Trim(query)),
                    countParamIndex |-> c0.countParamIndex + 1]
              ELSE c0
        c2 == IF Truthy(manufacturer)
              THEN [where |-> Append(c1.where, EqPred("manufacturer", c1.countParamIndex)),
                    params |-> Append(c1.params, manufacturer),
                    countParamIndex |-> c1.countParamIndex + 1]
              ELSE c1
        c3 == IF Truthy(category)
              THEN [where |-> Append(c2.where, EqPred("category", c2.countParamIndex)),
                    params |-> Append(c2.params, category),
                    countParamIndex |-> c2.countParamIndex]
              ELSE c2
    IN  [select |-> "COUNT(*)", where |-> c3.where, params |-> c3.params]

\* getAllProducts: the listing query and its count
AllProductsSql(page, limit) ==
    [select |-> "*",
     where |-> <<ActivePred>>,
     orderBy |-> [key |-> "name", ph |-> 0],
     limitPh |-> 1,
     offsetPh |-> 2,
     params |-> <<limit, (page - 1) * limit>>]

AllCountSql == [select |-> "COUNT(*)", where |-> <<ActivePred>>, params |-> <<>>]

\* The manufacturer facet counted over every row of the table.
ManufacturersSqlAllRows ==
    [select |-> "manufacturer, COUNT(*)", where |-> <<>>,
     groupBy |-> "manufacturer", params |-> <<>>]

\* getManufacturers
ManufacturersSql ==
    [select |-> "manufacturer, COUNT(*)", where |-> <<ActivePred>>,
     groupBy |-> "manufacturer", params |-> <<>>]

\* The category facet taken over every manufacturer's products.
CategoriesSqlUnfiltered(manufacturer) ==
    [select |-> "category, COUNT(*)",
     where |-> <<ActivePred, NotNullPred("category")>>,
     groupBy |-> "category", params |-> <<>>]

\* getCategoriesForManufacturer
CategoriesSql(manufacturer) ==
    [select |-> "category, COUNT(*)",
     where |-> <<ActivePred, EqPred("manufacturer", 1), NotNullPred("category")>>,
     groupBy |-> "category", params |-> <<manufacturer>>]

\* getProductBySku without its active condition.
BySkuSqlAnyRow(sku) ==
    [select |-> "*", where |-> <<EqPred("sku", 1)>>, params |-> <<sku>>]

\* getProductBySku
BySkuSql(sku) ==
    [select |-> "*", where |-> <<EqPred("sku", 1), ActivePred>>, params |-> <<sku>>]

----------------------------------------------------------------------------
(* The store's evaluation of a statement over a table.                     *)

EvalPred(r, p, params) ==
    CASE p.op = "= true" -> r[p.col] = TRUE
      [] p.op = "@@ plainto_tsquery" ->
            TsMatch(r.search_vector, PlaintoTsquery(params[p.ph]))
      [] p.op = "=" -> r[p.col] # Null /\ r[p.col] = params[p.ph]
      [] p.op = "IS NOT NULL" -> r[p.col] # Null

WhereRows(table, sql) ==
    {r \in table : \A i \in 1..Len(sql.where) : EvalPred(r, sql.where[i], sql.params)}

\* seq obeys the statement's ORDER BY; rows with equal keys come in any order.
Ordered(seq, sql) ==
    \A i, j \in 1..Len(seq) : i < j =>
        IF sql.orderBy.key = "name"
        THEN StrLeq(seq[i].name, seq[j].name)
        ELSE LET tsq == PlaintoTsquery(sql.params[sql.orderBy.ph])
             IN  TsRank(seq[i].search_vector, tsq) >= TsRank(seq[j].search_vector, tsq)

\* r sorts strictly before s under the statement's ORDER BY.
SortsBefore(r, s, sql) ==
    IF sql.orderBy.key = "name"
    THEN ~StrLeq(s.name, r.name)
    ELSE LET tsq == PlaintoTsquery(sql.params[sql.orderBy.ph])
         IN  TsRank(r.search_vector, tsq) > TsRank(s.search_vector, tsq)

RECURSIVE SortedOrderings(_, _)
\* The row sequences the store may produce for ORDER BY: the rows that no
\* other row sorts before come first, in any order among themselves, then
\* the rest in the same way.  These are the orderings that obey Ordered.
SortedOrderings(rows, sql) ==
    IF rows = {} THEN {<<>>}
    ELSE LET first == {r \in rows : \A s \in rows : ~SortsBefore(s, r, sql)}
         IN  {g \o rest : g \in Orderings(first),
                          rest \in SortedOrderings(rows \ first, sql)}

OffsetError == "OFFSET must not be negative"

\* SELECT ... WHERE ... ORDER BY ... LIMIT ... OFFSET: the answers the store
\* may give, an error for a negative OFFSET.
ExecSelect(table, sql) ==
    IF sql.params[sql.offsetPh] < 0
    THEN {[error |-> OffsetError, rows |-> <<>>]}
    ELSE {[error |-> "",
           rows |-> Window(o, sql.params[sql.limitPh], sql.params[sql.offsetPh])] :
             o \in SortedOrderings(WhereRows(table, sql), sql)}

\* SELECT COUNT(*) ... WHERE ...
ExecCount(table, sql) == Cardinality(WhereRows(table, sql))

\* SELECT col, COUNT(*) as product_count ... GROUP BY col ORDER BY col ASC
ExecGroupCount(table, sql) ==
    LET col == sql.groupBy
        matched == WhereRows(table, sql)
        entry(v) == [value |-> v,
                     product_count |-> Cardinality({r \in matched : r[col] = v})]
        groups == {entry(r[col]) : r \in matched}
    IN  CHOOSE f \in Orderings(groups) :
            \A i, j \in 1..Len(f) : i < j => StrLeq(f[i].value, f[j].value)

\* SELECT * ... WHERE sku = $1 AND active = true: the answers the store may give
ExecLookup(table, sql) == Orderings(WhereRows(table, sql))

----------------------------------------------------------------------------
(* Requests.                                                               *)

QValues == {Undefined, <<SP>>, <<SP, "a", SP>>, <<"a", SP, "b">>, <<"z">>, <<"!">>}
ManufacturerValues == {Undefined, EmptyString, <<"x">>, <<"z">>}
CategoryValues == {Undefined, <<"c">>, <<"z">>}
PageValues == {Undefined, <<"0">>, <<"-", "1">>, <<"2">>}
SkuValues == Skus \cup {<<"9">>}

NoRequest ==
    [q |-> Undefined, manufacturer |-> Undefined, category |-> Undefined,
     page |-> Undefined, sku |-> Undefined]

NoLocals ==
    [query |-> Undefined, manufacturer |-> Undefined, category |-> Undefined,
     page |-> 0, products |-> <<>>, totalCount |-> 0, manufacturers |-> <<>>,
     categories |-> <<>>, product |-> <<>>, error |-> ""]

NoResponse == [status |-> 0, view |-> "", body |-> ""]

StoreUnavailable == "store unavailable"

\* The store calls a handler may be awaiting.
QueryPcs ==
    {"result", "count", "manufacturers", "categories",
     "listRows", "listCount", "bySku", "detailCategories", "health"}

Call(name, sql) == [name |-> name, sql |-> sql]
LastCall == calls[Len(calls)]

\* catch (error) { console.error(...); res.status(500).send('Server error') }
ServerError == [status |-> 500, view |-> "send", body |-> "Server error"]

\* res.status(200).json({status: 'healthy', database: 'connected', ...})
Healthy ==
    [status |-> 200, view |-> "json",
     body |-> [status |-> "healthy", database |-> "connected"]]

\* res.status(503).json({status: 'unhealthy', database: 'disconnected', ...})
Unhealthy ==
    [status |-> 503, view |-> "json",
     body |-> [status |-> "unhealthy", database |-> "disconnected"]]

\* SELECT 1 as health
HealthSql == [select |-> "1 as health", where |-> <<>>, params |-> <<>>]

\* The title of routes/products.js, lines 92-100
Title(query, manufacturer, category) ==
    IF Truthy(manufacturer) /\ Truthy(category)
    THEN manufacturer \o <<" - ">> \o category
    ELSE IF Truthy(manufacturer) THEN <<"Produkte von ">> \o manufacturer
    ELSE IF Truthy(query) THEN <<"Suchergebnisse fuer ">> \o query
    ELSE <<"Alle Produkte">>

\* res.render('products', {...}) of routes/products.js, lines 102-117
RenderProducts(l) ==
    [status |-> 200, view |-> "products",
     body |-> [title |-> Title(l.query, l.manufacturer, l.category),
               products |-> l.products,
               manufacturers |-> l.manufacturers,
               categories |-> l.categories,
               filters |-> [query |-> l.query, manufacturer |-> l.manufacturer,
                            category |-> l.category],
               pagination |-> [currentPage |-> l.page,
                               totalPages |-> CeilDiv(l.totalCount, PageSize),
                               totalCount |-> l.totalCount]]]

----------------------------------------------------------------------------
(* The page links of views/partials/pagination.ejs, and the way back: the  *)
(* browser reads the href, Express parses the query string.  A URL is a    *)
(* sequence of tokens; a percent escape and an HTML entity are one token.  *)

\* application/x-www-form-urlencoded, as URLSearchParams.toString() writes it
EncodeToken(t) ==
    CASE t = SP -> "+" [] t = "!" -> "%21" [] t = "+" -> "%2B"
      [] t = "&" -> "%26" [] t = "=" -> "%3D" [] OTHER -> t

FormEncode(s) == [i \in 1..Len(s) |-> EncodeToken(s[i])]

\* The decoding of a query string value by Express (qs)
DecodeToken(t) ==
    CASE t = "+" -> SP [] t = "%21" -> "!" [] t = "%2B" -> "+"
      [] t = "%26" -> "&" [] t = "%3D" -> "=" [] OTHER -> t

FormDecode(s) == [i \in 1..Len(s) |-> DecodeToken(s[i])]

RECURSIVE NumberToString(_)
\* String(page) for page >= 0
NumberToString(n) ==
    IF n < 10 THEN <<ToString(n)>>
    ELSE NumberToString(n \div 10) \o <<ToString(n % 10)>>

RECURSIVE ParamsToString(_)
\* params.toString(): name=value pairs joined by &
ParamsToString(params) ==
    IF params = <<>> THEN <<>>
    ELSE <<Head(params)[1], "=">> \o FormEncode(Head(params)[2])
         \o (IF Tail(params) = <<>> THEN <<>> ELSE <<"&">> \o ParamsToString(Tail(params)))

\* buildUrl without the category.
BuildUrlNoCategory(filters, page) ==
    LET p1 == IF Truthy(filters.query) THEN <<(<<"q", filters.query>>)>> ELSE <<>>
        p2 == IF Truthy(filters.manufacturer)
              THEN Append(p1, <<"manufacturer", filters.manufacturer>>) ELSE p1
        p4 == Append(p2, <<"page", NumberToString(page)>>)
    IN  <<"/products?">> \o ParamsToString(p4)

\* buildUrl of pagination.ejs: p1, p2, p3 and p4 are params after each set.
BuildUrl(filters, page) ==
    LET p1 == IF Truthy(filters.query) THEN <<(<<"q", filters.query>>)>> ELSE <<>>
        p2 == IF Truthy(filters.manufacturer)
              THEN Append(p1, <<"manufacturer", filters.manufacturer>>) ELSE p1
        p3 == IF Truthy(filters.category)
              THEN Append(p2, <<"category", filters.category>>) ELSE p2
        p4 == Append(p3, <<"page", NumberToString(page)>>)
    IN  <<"/products?">> \o ParamsToString(p4)

\* <%= ... %> escapes the value for HTML
HtmlEscape(s) == [i \in 1..Len(s) |-> IF s[i] = "&" THEN "&amp;" ELSE s[i]]

\* The browser reads the attribute value
HtmlUnescape(s) == [i \in 1..Len(s) |-> IF s[i] = "&amp;" THEN "&" ELSE s[i]]

\* The hrefs of the previous and the next link, each present or not.  The
\* products view includes the partial only when there is more than one page.
PaginationLinks(body) ==
    LET currentPage == body.pagination.currentPage
        totalPages == body.pagination.totalPages
    IN  IF totalPages > 1
        THEN [prev |-> IF currentPage > 1
                       THEN <<HtmlEscape(BuildUrl(body.filters, currentPage - 1))>>
                       ELSE <<>>,
              next |-> IF currentPage < totalPages
                       THEN <<HtmlEscape(BuildUrl(body.filters, currentPage + 1))>>
                       ELSE <<>>]
        ELSE [prev |-> <<>>, next |-> <<>>]

RECURSIVE SplitOn(_, _)
\* s.split(sep)
SplitOn(s, sep) ==
    IF \A i \in 1..Len(s) : s[i] # sep THEN <<s>>
    ELSE LET k == CHOOSE i \in 1..Len(s) : s[i] = sep /\ \A j \in 1..(i - 1) : s[j] # sep
         IN  <<SubSeq(s, 1, k - 1)>> \o SplitOn(SubSeq(s, k + 1, Len(s)), sep)

\* req.query of a GET of url: the value of each name=value pair, undefined
\* for a name the query string lacks.
ParseQuery(url) ==
    LET pairs == SplitOn(Tail(url), "&")
        has(name) == \E i \in 1..Len(pairs) : pairs[i] # <<>> /\ pairs[i][1] = name
        value(name) ==
            IF has(name)
            THEN LET pr == pairs[CHOOSE i \in 1..Len(pairs) :
                                     pairs[i] # <<>> /\ pairs[i][1] = name]
                 IN  FormDecode(SubSeq(pr, 3, Len(pr)))
            ELSE Undefined
    IN  [q |-> value("q"), manufacturer |-> value("manufacturer"),
         category |-> value("category"), page |-> value("page"), sku |-> Undefined]

\* The filters and the page the /products route reads from req.query
ReadFilters(rq) ==
    [query |-> OrElse(rq.q, EmptyString),
     manufacturer |-> OrElse(rq.manufacturer, Null),
     category |-> OrElse(rq.category, Null),
     page |-> ParsePage(rq.page)]

----------------------------------------------------------------------------
(* The import scripts: scripts/import-csv.js, which upserts row by row, and *)
(* its batch version, which collects the valid rows and upserts them in     *)
(* one transaction per batch.  A CSV file is the sequence of records that   *)
(* csv-parse returns with columns: true and trim: true: every value is a    *)
(* trimmed string, a column the file lacks is undefined.                    *)

\* The longest CSV file.
MaxCsvRows == 2

\* The imports that may run to their end one after the other.
MaxImports == 2

Nan == <<"nan">>
Unknown == <<"Unknown">>

CsvRecord(artikelnummer, produktname, manufacturer, variant_name, produktbeschreibung, cat1, cat2) ==
    [artikelnummer |-> artikelnummer, produktname |-> produktname,
     manufacturer |-> manufacturer, variant_name |-> variant_name,
     product_group |-> Undefined, produktbeschreibung |-> produktbeschreibung,
     cat1 |-> cat1, cat2 |-> cat2, cat3 |-> Nan, cat4 |-> Undefined]

\* The records a file may hold: two of sku 1 with different columns, one of
\* sku 2, one without sku and one without name.
CsvRecords ==
    { CsvRecord(<<"1">>, <<"a">>, <<"x">>, Nan, <<"<p>", "b", "</p>">>, <<"c">>, Nan),
      CsvRecord(<<"1">>, <<"a", SP, "b">>, EmptyString, Undefined, Nan, <<"c">>, <<"d">>),
      CsvRecord(<<"2">>, <<"a">>, <<"y">>, EmptyString, Undefined, Undefined, Undefined),
      CsvRecord(EmptyString, <<"a">>, <<"x">>, Nan, Nan, <<"c">>, Nan),
      CsvRecord(<<"2">>, EmptyString, <<"x">>, Nan, Nan, <<"c">>, Nan) }

RECURSIVE SeqsUpTo(_, _)
\* The sequences over S of length at most n
SeqsUpTo(S, n) ==
    IF n = 0 THEN {<<>>}
    ELSE LET shorter == SeqsUpTo(S, n - 1)
         IN  shorter \cup {Append(f, x) : f \in shorter, x \in S}

CsvFiles == SeqsUpTo(CsvRecords, MaxCsvRows)

\* process.env.CSV_BATCH_SIZE
BatchSizeEnv == {Undefined, <<"1">>}

\* parseInt(process.env.CSV_BATCH_SIZE || '100'), for a setting that is a
\* number
BatchSize(env) == ParseInt(OrElse(env, <<"1", "0", "0">>)).n

\* sanitizeHtml(html, {allowedTags: [p, ul, li, b, ...]}): p is allowed
SanitizeHtml(html) == html

\* !value || value === 'nan' || value.trim() === ''
Blank(value) == ~Truthy(value) \/ value = Nan \/ Trim(value) = EmptyString

sanitizeDescription(html) == IF Blank(html) THEN Null ELSE SanitizeHtml(html)

cleanValue(value) == IF Blank(value) THEN Null ELSE Trim(value)

getLeafCategory(row) ==
    IF ~Blank(row.cat4) THEN Trim(row.cat4)
    ELSE IF ~Blank(row.cat3) THEN Trim(row.cat3)
    ELSE IF ~Blank(row.cat2) THEN Trim(row.cat2)
    ELSE IF ~Blank(row.cat1) THEN Trim(row.cat1)
    ELSE Null

\* The required fields tested on the sku alone.
RowValidSkuOnly(row) == Truthy(row.artikelnummer)

\* !(!row.artikelnummer || !row.produktname)
RowValid(row) == Truthy(row.artikelnummer) /\ Truthy(row.produktname)

MissingRequired == "Missing required fields: artikelnummer or produktname"

\* The entry pushed to results.errors for record i (counted from 1); the
\* file's line is one more, for the header.
RowError(i, row, message) ==
    [row |-> i + 1, sku |-> OrElse(row.artikelnummer, <<"unknown">>), error |-> message]

BatchError(batchNum, size, message) ==
    [batch |-> batchNum, size |-> size, error |-> message]

\* The product object built from a valid record
ProductOf(row) ==
    [sku |-> Trim(row.artikelnummer),
     name |-> Trim(row.produktname),
     variantName |-> cleanValue(row.variant_name),
     manufacturer |-> IF Truthy(row.manufacturer) THEN Trim(row.manufacturer) ELSE Unknown,
     productGroup |-> cleanValue(row.product_group),
     description |-> sanitizeDescription(row.produktbeschreibung),
     category |-> getLeafCategory(row)]

NoResults == [success |-> 0, failed |-> 0, errors |-> <<>>]

\* The locals of the record loop.
NoScan == [results |-> NoResults, seenSkus |-> {}, products |-> <<>>]

\* One pass of the record loop up to its await or continue: the record is
\* refused, skipped as a sku already seen, or accepted.
ScanRecord(i, row, acc) ==
    IF ~RowValid(row)
    THEN [acc EXCEPT !.results.failed = @ + 1,
                     !.results.errors = Append(@, RowError(i, row, MissingRequired))]
    ELSE IF Trim(row.artikelnummer) \in acc.seenSkus
    THEN acc
    ELSE [acc EXCEPT !.seenSkus = @ \cup {Trim(row.artikelnummer)},
                     !.products = Append(@, ProductOf(row))]

RECURSIVE CollectProducts(_, _, _)
\* The record loop of the batch script, records i.. : it awaits nothing.
CollectProducts(records, i, acc) ==
    IF i > Len(records) THEN acc
    ELSE CollectProducts(records, i + 1, ScanRecord(i, records[i], acc))

\* DELETE and INSERT in place of ON CONFLICT DO UPDATE: the row is new, with
\* active at its default.
UpsertAsReplace(table, p) ==
    LET new == [sku |-> p.sku, name |-> p.name, variant_name |-> p.variantName,
                manufacturer |-> p.manufacturer, product_group |-> p.productGroup,
                description |-> p.description, category |-> p.category,
                active |-> TRUE]
    IN  {r \in table : r.sku # p.sku} \cup {WithIndex(new, IndexOnWrite(store.schema, new))}

\* The columns ON CONFLICT (sku) DO UPDATE SET assigns, in both scripts
ConflictUpdates ==
    {"name", "variant_name", "manufacturer", "manufacturer_number", "product_group",
     "description", "image_url", "category", "updated_at"}

\* INSERT INTO products (...) VALUES (...) ON CONFLICT (sku) DO UPDATE SET
\* ...: a new sku is inserted with active at its default true, an existing
\* row keeps its active and takes the other columns.
Upsert(table, p) ==
    LET old == {r \in table : r.sku = p.sku}
        active == IF old = {} THEN TRUE ELSE (CHOOSE r \in old : TRUE).active
        new == [sku |-> p.sku, name |-> p.name, variant_name |-> p.variantName,
                manufacturer |-> p.manufacturer, product_group |-> p.productGroup,
                description |-> p.description, category |-> p.category,
                active |-> active]
    IN  (table \ old) \cup {WithIndex(new, IndexOnWrite(store.schema, new))}

\* INSERT without ON CONFLICT: every value becomes a new row.
UpsertAllAsInsert(table, ps) ==
    table \cup
    {[sku |-> ps[k].sku, name |-> ps[k].name, variant_name |-> ps[k].variantName,
      manufacturer |-> ps[k].manufacturer, product_group |-> ps[k].productGroup,
      description |-> ps[k].description, category |-> ps[k].category,
      active |-> TRUE, search_vector |-> NoVector] : k \in 1..Len(ps)}

RECURSIVE UpsertAll(_, _)
\* The multi-row VALUES list of insertBatch, or the single row of the
\* row-by-row script.
UpsertAll(table, ps) ==
    IF ps = <<>> THEN table
    ELSE UpsertAll(Upsert(table, Head(ps)), Tail(ps))

\* The import process before it is started.
NoImport ==
    [pc |-> "idle", mode |-> "", records |-> <<>>, i |-> 0, scan |-> NoScan,
     batchSize |-> 0, client |-> FALSE, poolOut |-> 0, tx |-> <<>>,
     exitCode |-> 0 - 1]

\* The ingest script before it is started, over empty folders.
NoIngest ==
    [pc |-> "idle", files |-> <<>>, k |-> 0, inbox |-> {}, done |-> {},
     failed |-> {}, logs |-> {}, fsFailed |-> FALSE, exitCode |-> 0 - 1]

\* The server process after app.listen: the startup query of
\* config/database.js is on its way, no signal has been received.
Started ==
    [state |-> "running", exitCode |-> 0 - 1, server |-> "listening",
     pool |-> "open", startup |-> "pending", signals |-> 0, closeCallbacks |-> 0,
     timers |-> 0, log |-> {}]

\* The server process once its startup query has been answered.
Running == [Started EXCEPT !.startup = "ok", !.log = {"Database connection established"}]

----------------------------------------------------------------------------
(* GET /products (routes/products.js with filters) and searchProducts.     *)

\* No request is being served, no connection is out, no import and no
\* ingest is running, the server listens.
Idle ==
    /\ pc = "idle"
    /\ route = ""
    /\ reqQuery = NoRequest
    /\ locals = NoLocals
    /\ calls = <<>>
    /\ hung = FALSE
    /\ res = NoResponse
    /\ conn = FALSE
    /\ checkedOut = 0
    /\ others = 0
    /\ imp = NoImport
    /\ import_history = <<>>
    /\ ingest = NoIngest
    /\ srv = Running

\* Idle, over a reachable store that schema.sql has set up.
Quiet ==
    /\ Idle
    /\ store = SchemaSqlStore

Init ==
    /\ products \in Catalogs
    /\ Quiet

\* A request is taken while the server listens
CanBegin == pc = "idle" /\ ~hung /\ srv.state = "running" /\ srv.server = "listening"

\* The pool hands out connections without limit.
PoolHasRoomAlways(n) == TRUE

\* The pool creates a client only while fewer than max are checked out.
PoolHasRoom(n) == n < PoolMax

\* db.query(...) is pool.query: the call takes a connection when the pool
\* has room, connecting a new client to the store if it can be reached, and
\* otherwise waits in the pool's queue.
PoolQueryIssued ==
    IF PoolHasRoom(checkedOut) /\ store.reachable
    THEN conn' = TRUE /\ checkedOut' = checkedOut + 1
    ELSE conn' = FALSE /\ UNCHANGED checkedOut

\* pool.query gives its connection back when the statement has been answered
\* or has failed; a call still waiting for a connection holds none.
PoolQuerySettled ==
    /\ conn' = FALSE
    /\ checkedOut' = IF conn THEN checkedOut - 1 ELSE checkedOut

\* The request arrives: the query string is read, searchProducts builds the
\* result query and issues it.
ProductsRequest(q, m, c, p) ==
    /\ CanBegin
    /\ LET query == OrElse(q, EmptyString)
           manufacturer == OrElse(m, Null)
           category == OrElse(c, Null)
           page == ParsePage(p)
       IN  /\ reqQuery' = [NoRequest EXCEPT !.q = q, !.manufacturer = m,
                                            !.category = c, !.page = p]
           /\ locals' = [NoLocals EXCEPT !.query = query, !.manufacturer = manufacturer,
                                         !.category = category, !.page = page]
           /\ calls' = <<Call("result",
                              ResultSql(query, manufacturer, category, page, PageSize))>>
    /\ route' = "/products"
    /\ pc' = "result"
    /\ res' = NoResponse
    /\ PoolQueryIssued
    /\ UNCHANGED <<store, ingest, srv, products, import_history, imp, others, hung>>

BeginProducts ==
    \E q \in QValues, m \in ManufacturerValues, c \in CategoryValues, p \in PageValues :
        ProductsRequest(q, m, c, p)

\* The store answers the result query: its rows are kept and the count query
\* is built and issued; a statement the store refuses is caught by the route.
ResultAnswer ==
    /\ pc = "result" /\ conn /\ ~hung
    /\ \E ans \in ExecSelect(products, LastCall.sql) :
          IF ans.error # ""
          THEN /\ locals' = [locals EXCEPT !.error = ans.error]
               /\ res' = ServerError
               /\ pc' = "done"
               /\ UNCHANGED calls
          ELSE /\ locals' = [locals EXCEPT !.products = ans.rows]
               /\ calls' = Append(calls, Call("count",
                               CountSql(locals.query, locals.manufacturer, locals.category)))
               /\ pc' = "count"
               /\ UNCHANGED res
    /\ IF pc' = "done" THEN PoolQuerySettled ELSE UNCHANGED <<conn, checkedOut>>
    /\ UNCHANGED <<store, ingest, srv, products, import_history, imp, others, route, reqQuery, hung>>

\* The store answers the count query: searchProducts returns and the route
\* calls getManufacturers.
CountAnswer ==
    /\ pc = "count" /\ conn /\ ~hung
    /\ locals' = [locals EXCEPT !.totalCount = ExecCount(products, LastCall.sql)]
    /\ calls' = Append(calls, Call("manufacturers", ManufacturersSql))
    /\ pc' = "manufacturers"
    /\ UNCHANGED <<conn, checkedOut>>
    /\ UNCHANGED <<store, ingest, srv, products, import_history, imp, others, route, reqQuery, hung, res>>

\* The category facet fetched for every request.
CategoriesWantedAlways(manufacturer) == TRUE

\* if (manufacturer), routes/products.js line 88
CategoriesWanted(manufacturer) == Truthy(manufacturer)

\* The store answers getManufacturers: with a manufacturer selected the route
\* calls getCategoriesForManufacturer, otherwise it renders.
ManufacturersAnswer ==
    /\ pc = "manufacturers" /\ conn /\ ~hung
    /\ LET l == [locals EXCEPT !.manufacturers = ExecGroupCount(products, LastCall.sql)]
       IN  /\ locals' = l
           /\ IF CategoriesWanted(locals.manufacturer)
              THEN /\ calls' = Append(calls, Call("categories",
                                                 CategoriesSql(locals.manufacturer)))
                   /\ pc' = "categories"
                   /\ UNCHANGED res
              ELSE /\ res' = RenderProducts(l)
                   /\ pc' = "done"
                   /\ UNCHANGED calls
    /\ IF pc' = "done" THEN PoolQuerySettled ELSE UNCHANGED <<conn, checkedOut>>
    /\ UNCHANGED <<store, ingest, srv, products, import_history, imp, others, route, reqQuery, hung>>

\* The store answers getCategoriesForManufacturer: the route renders.
CategoriesAnswer ==
    /\ pc = "categories" /\ conn /\ ~hung
    /\ LET l == [locals EXCEPT !.categories = ExecGroupCount(products, LastCall.sql)]
       IN  /\ locals' = l
           /\ res' = RenderProducts(l)
    /\ pc' = "done"
    /\ PoolQuerySettled
    /\ UNCHANGED <<store, ingest, srv, products, import_history, imp, others, route, reqQuery, calls, hung>>

----------------------------------------------------------------------------
(* GET /products of the listing-only routes/products.js and getAllProducts. *)

BeginListing ==
    /\ CanBegin
    /\ \E p \in PageValues :
          LET page == ParsePage(p)
          IN  /\ reqQuery' = [NoRequest EXCEPT !.page = p]
              /\ locals' = [NoLocals EXCEPT !.query = EmptyString, !.manufacturer = Null,
                                            !.category = Null, !.page = page]
              /\ calls' = <<Call("listRows", AllProductsSql(page, PageSize))>>
    /\ route' = "/products (listing)"
    /\ pc' = "listRows"
    /\ res' = NoResponse
    /\ PoolQueryIssued
    /\ UNCHANGED <<store, ingest, srv, products, import_history, imp, others, hung>>

ListRowsAnswer ==
    /\ pc = "listRows" /\ conn /\ ~hung
    /\ \E ans \in ExecSelect(products, LastCall.sql) :
          IF ans.error # ""
          THEN /\ locals' = [locals EXCEPT !.error = ans.error]
               /\ res' = ServerError
               /\ pc' = "done"
               /\ UNCHANGED calls
          ELSE /\ locals' = [locals EXCEPT !.products = ans.rows]
               /\ calls' = Append(calls, Call("listCount", AllCountSql))
               /\ pc' = "listCount"
               /\ UNCHANGED res
    /\ IF pc' = "done" THEN PoolQuerySettled ELSE UNCHANGED <<conn, checkedOut>>
    /\ UNCHANGED <<store, ingest, srv, products, import_history, imp, others, route, reqQuery, hung>>

\* manufacturers and categories are rendered as [] by this route
ListCountAnswer ==
    /\ pc = "listCount" /\ conn /\ ~hung
    /\ LET l == [locals EXCEPT !.totalCount = ExecCount(products, LastCall.sql)]
       IN  /\ locals' = l
           /\ res' = RenderProducts(l)
    /\ pc' = "done"
    /\ PoolQuerySettled
    /\ UNCHANGED <<store, ingest, srv, products, import_history, imp, others, route, reqQuery, calls, hung>>

----------------------------------------------------------------------------
(* GET /product/:sku (routes/product.js) and getProductBySku.              *)

\* res.status(404).render('404', {...})
RenderNotFound(sku) == [status |-> 404, view |-> "404", body |-> [sku |-> sku]]

\* res.render('product', {...})
RenderProduct(l) ==
    [status |-> 200, view |-> "product",
     body |-> [product |-> l.product, categories |-> l.categories]]

BeginProduct ==
    /\ CanBegin
    /\ \E sku \in SkuValues :
          /\ reqQuery' = [NoRequest EXCEPT !.sku = sku]
          /\ calls' = <<Call("bySku", BySkuSql(sku))>>
    /\ locals' = NoLocals
    /\ route' = "/product/:sku"
    /\ pc' = "bySku"
    /\ res' = NoResponse
    /\ PoolQueryIssued
    /\ UNCHANGED <<store, ingest, srv, products, import_history, imp, others, hung>>

\* result.rows.length > 0 ? result.rows[0] : null; product holds the row, or
\* nothing for null.
BySkuAnswer ==
    /\ pc = "bySku" /\ conn /\ ~hung
    /\ \E rows \in ExecLookup(products, LastCall.sql) :
          LET product == IF Len(rows) > 0 THEN <<rows[1]>> ELSE <<>>
          IN  /\ locals' = [locals EXCEPT !.product = product]
              /\ IF product = <<>>
                 THEN /\ res' = RenderNotFound(reqQuery.sku)
                      /\ pc' = "done"
                      /\ UNCHANGED calls
                 ELSE /\ calls' = Append(calls, Call("detailCategories",
                                            CategoriesSql(product[1].manufacturer)))
                      /\ pc' = "detailCategories"
                      /\ UNCHANGED res
    /\ IF pc' = "done" THEN PoolQuerySettled ELSE UNCHANGED <<conn, checkedOut>>
    /\ UNCHANGED <<store, ingest, srv, products, import_history, imp, others, route, reqQuery, hung>>

DetailCategoriesAnswer ==
    /\ pc = "detailCategories" /\ conn /\ ~hung
    /\ LET l == [locals EXCEPT !.categories = ExecGroupCount(products, LastCall.sql)]
       IN  /\ locals' = l
           /\ res' = RenderProduct(l)
    /\ pc' = "done"
    /\ PoolQuerySettled
    /\ UNCHANGED <<store, ingest, srv, products, import_history, imp, others, route, reqQuery, calls, hung>>

----------------------------------------------------------------------------
(* GET /health (routes/health.js).                                         *)

BeginHealth ==
    /\ CanBegin
    /\ reqQuery' = NoRequest
    /\ locals' = NoLocals
    /\ calls' = <<Call("health", HealthSql)>>
    /\ route' = "/health"
    /\ pc' = "health"
    /\ res' = NoResponse
    /\ PoolQueryIssued
    /\ UNCHANGED <<store, ingest, srv, products, import_history, imp, others, hung>>

HealthAnswer ==
    /\ pc = "health" /\ conn /\ ~hung
    /\ store.reachable
    /\ res' = Healthy
    /\ pc' = "done"
    /\ PoolQuerySettled
    /\ UNCHANGED <<store, ingest, srv, products, import_history, imp, others, route, reqQuery, locals, calls, hung>>

\* A call that waits in the pool's queue gets a connection that came free.
ConnectionGranted ==
    /\ pc \in QueryPcs /\ ~conn
    /\ PoolHasRoom(checkedOut) /\ store.reachable
    /\ conn' = TRUE
    /\ checkedOut' = checkedOut + 1
    /\ UNCHANGED <<store, ingest, srv, products, import_history, imp, others, pc, route, reqQuery, locals,
                   calls, hung, res>>

----------------------------------------------------------------------------
(* The store failing.                                                      *)

\* A failed store call rendered as an empty result.
QueryRejectedAsEmpty ==
    /\ pc \in QueryPcs /\ ~hung
    /\ locals' = [locals EXCEPT !.error = StoreUnavailable]
    /\ res' = RenderProducts([locals EXCEPT !.products = <<>>, !.totalCount = 0])
    /\ pc' = "done"
    /\ PoolQuerySettled
    /\ UNCHANGED <<store, ingest, srv, products, import_history, imp, others, route, reqQuery, calls, hung>>

\* The awaited db.query rejects (no connection within connectionTimeoutMillis,
\* connection lost, query error): the route's catch block answers 500.
QueryRejected ==
    /\ pc \in QueryPcs /\ ~hung
    /\ locals' = [locals EXCEPT !.error = StoreUnavailable]
    /\ res' = IF route = "/health" THEN Unhealthy ELSE ServerError
    /\ pc' = "done"
    /\ PoolQuerySettled
    /\ UNCHANGED <<store, ingest, srv, products, import_history, imp, others, route, reqQuery, calls, hung>>

\* The store took the statement and never answers.  The pool sets no
\* query_timeout or statement_timeout, so nothing in the process ends the
\* await.
StoreSilent ==
    /\ pc \in QueryPcs /\ conn /\ ~hung
    /\ hung' = TRUE
    /\ UNCHANGED <<conn, checkedOut>>
    /\ UNCHANGED <<store, ingest, srv, products, import_history, imp, others, pc, route, reqQuery, locals, calls, res>>

\* The request's frame kept after the response.
RequestEndsKeepingLocals ==
    /\ pc = "done"
    /\ pc' = "idle"
    /\ UNCHANGED <<store, ingest, srv, products, import_history, imp, others, route, reqQuery, locals, calls,
                   hung, res, conn, checkedOut>>

\* The response has been sent: the handler's frame is gone, and nothing of the
\* request is kept for the next one.
RequestEnds ==
    /\ pc = "done"
    /\ pc' = "idle"
    /\ route' = ""
    /\ reqQuery' = NoRequest
    /\ locals' = NoLocals
    /\ calls' = <<>>
    /\ res' = NoResponse
    /\ UNCHANGED <<conn, checkedOut>>
    /\ UNCHANGED <<store, ingest, srv, products, import_history, imp, others, hung>>

----------------------------------------------------------------------------
(* The import process.  It is a process of its own (npm run import): it    *)
(* has its own pool, and shares with the server only the store.            *)

requestVars == <<pc, route, reqQuery, locals, calls, hung, res, conn, checkedOut, others>>

FilePath == "data/products.csv"

\* The products of the batch that starts at product i
Batch(m) ==
    SubSeq(m.scan.products, m.i,
           IF m.i + m.batchSize - 1 < Len(m.scan.products)
           THEN m.i + m.batchSize - 1 ELSE Len(m.scan.products))

\* Math.floor(i / BATCH_SIZE) + 1, i counted from 0
BatchNum(m) == ((m.i - 1) \div m.batchSize) + 1

\* client.release() missing.
ClientKept(m) == m

\* finally { client.release() }
ReleasedInFinally(m) == [m EXCEPT !.client = FALSE, !.poolOut = @ - 1]

\* db.query(...) of the import process: its pool checks a connection out
PoolQueryOf(m) == [m EXCEPT !.poolOut = @ + 1]

\* importCSV rejects: the CLI's catch logs and calls process.exit(1)
ExitFailed(m) == [m EXCEPT !.pc = "exited", !.exitCode = 1, !.tx = <<>>]

\* The batch loop goes on with the batch at product i, or ends: the client
\* is released and the import_history row is sent.
NextBatch(m, i) ==
    IF i > Len(m.scan.products)
    THEN PoolQueryOf(ReleasedInFinally([m EXCEPT !.pc = "history", !.i = i, !.tx = <<>>]))
    ELSE [m EXCEPT !.pc = "begin", !.i = i, !.tx = <<>>]

\* The batch script starts: the file is parsed, the record loop runs to its
\* end and db.connect() is called.
\* The batch script up to its first await: the records are scanned, then
\* db.connect() is called.
BatchImportOf(records, env) ==
    [NoImport EXCEPT !.pc = "connect", !.mode = "batch", !.records = records,
                     !.scan = CollectProducts(records, 1, NoScan),
                     !.batchSize = BatchSize(env), !.i = 1]

StartBatch(records, env) ==
    /\ imp.pc = "idle"
    /\ Len(import_history) < MaxImports
    /\ imp' = BatchImportOf(records, env)
    /\ UNCHANGED <<store, ingest, srv, products, import_history, requestVars>>

StartBatchImport == \E records \in CsvFiles, env \in BatchSizeEnv : StartBatch(records, env)

\* db.connect() resolves with a client.
ClientConnected ==
    /\ imp.pc = "connect"
    /\ imp' = NextBatch([imp EXCEPT !.client = TRUE, !.poolOut = @ + 1], 1)
    /\ UNCHANGED <<store, ingest, srv, products, import_history, requestVars>>

\* db.connect() rejects: importCSV rejects before its try block.
ConnectRejected ==
    /\ imp.pc = "connect"
    /\ imp' = ExitFailed(imp)
    /\ UNCHANGED <<store, ingest, srv, products, import_history, requestVars>>

\* BEGIN is answered: insertBatch sends the multi-row INSERT.
BeginAnswered ==
    /\ imp.pc = "begin"
    /\ imp' = [imp EXCEPT !.pc = "insert"]
    /\ UNCHANGED <<store, ingest, srv, products, import_history, requestVars>>

\* The INSERT is answered: its rows are written in the open transaction, no
\* other session sees them; COMMIT is sent.
InsertAnswered ==
    /\ imp.pc = "insert"
    /\ CanInsert(store.schema)
    /\ imp' = [imp EXCEPT !.pc = "commit", !.tx = Batch(imp)]
    /\ UNCHANGED <<store, ingest, srv, products, import_history, requestVars>>

\* COMMIT is answered: the rows of the batch are in the table.
CommitAnswered ==
    /\ imp.pc = "commit"
    /\ products' = UpsertAll(products, imp.tx)
    /\ imp' = NextBatch([imp EXCEPT !.scan.results.success = @ + Len(Batch(imp))],
                        imp.i + imp.batchSize)
    /\ UNCHANGED <<store, ingest, srv, import_history, requestVars>>

\* BEGIN, the INSERT or COMMIT rejects: the catch block sends ROLLBACK.
BatchStatementRejected ==
    /\ imp.pc \in {"begin", "insert", "commit"}
    /\ imp' = [imp EXCEPT !.pc = "rollback", !.tx = <<>>]
    /\ UNCHANGED <<store, ingest, srv, products, import_history, requestVars>>

\* ROLLBACK is answered: the batch is counted as failed, the loop goes on.
RollbackAnswered ==
    /\ imp.pc = "rollback"
    /\ imp' = NextBatch(
                 [imp EXCEPT !.scan.results.failed = @ + Len(Batch(imp)),
                             !.scan.results.errors =
                                 Append(@, BatchError(BatchNum(imp), Len(Batch(imp)),
                                                      StoreUnavailable))],
                 imp.i + imp.batchSize)
    /\ UNCHANGED <<store, ingest, srv, products, import_history, requestVars>>

\* ROLLBACK rejects: the error leaves the catch block and the loop, the
\* finally block releases the client, importCSV rejects.
RollbackRejected ==
    /\ imp.pc = "rollback"
    /\ imp' = ExitFailed(ReleasedInFinally(imp))
    /\ UNCHANGED <<store, ingest, srv, products, import_history, requestVars>>

RECURSIVE NextUpsert(_, _)
\* The record loop of the row-by-row script from record i to its next await:
\* the upsert of an accepted record, or, past the last record, the
\* import_history row.
NextUpsert(m, i) ==
    IF i > Len(m.records) THEN [m EXCEPT !.pc = "history", !.i = i]
    ELSE LET acc == ScanRecord(i, m.records[i], m.scan)
         IN  IF Len(acc.products) > Len(m.scan.products)
             THEN [m EXCEPT !.pc = "upsert", !.i = i, !.scan = acc]
             ELSE NextUpsert([m EXCEPT !.scan = acc], i + 1)

\* The row-by-row script up to its first await
SingleImportOf(records) ==
    PoolQueryOf(NextUpsert([NoImport EXCEPT !.mode = "single", !.records = records], 1))

\* The row-by-row script starts.
StartSingle(records) ==
    /\ imp.pc = "idle"
    /\ Len(import_history) < MaxImports
    /\ imp' = SingleImportOf(records)
    /\ UNCHANGED <<store, ingest, srv, products, import_history, requestVars>>

StartSingleImport == \E records \in CsvFiles : StartSingle(records)

\* The upsert of record i is answered.
UpsertAnswered ==
    /\ imp.pc = "upsert"
    /\ CanInsert(store.schema)
    /\ products' = Upsert(products, imp.scan.products[Len(imp.scan.products)])
    /\ imp' = NextUpsert([imp EXCEPT !.scan.results.success = @ + 1], imp.i + 1)
    /\ UNCHANGED <<store, ingest, srv, import_history, requestVars>>

\* The upsert of record i rejects: the record is counted as failed.
UpsertRejected ==
    /\ imp.pc = "upsert"
    /\ imp' = NextUpsert(
                 [imp EXCEPT !.scan.results.failed = @ + 1,
                             !.scan.results.errors =
                                 Append(@, RowError(imp.i, imp.records[imp.i],
                                                    StoreUnavailable))],
                 imp.i + 1)
    /\ UNCHANGED <<store, ingest, srv, products, import_history, requestVars>>

\* INSERT INTO import_history is answered: importCSV returns its results and
\* the CLI calls process.exit(0).
HistoryAnswered ==
    /\ imp.pc = "history"
    /\ store.schema.history
    /\ import_history' = Append(import_history,
                                [filename |-> FilePath,
                                 rows_imported |-> imp.scan.results.success,
                                 rows_failed |-> imp.scan.results.failed,
                                 errors |-> imp.scan.results.errors])
    /\ imp' = [imp EXCEPT !.pc = "exited", !.exitCode = 0, !.poolOut = @ - 1]
    /\ UNCHANGED <<store, ingest, srv, products, requestVars>>

\* INSERT INTO import_history rejects: importCSV rejects.
HistoryRejected ==
    /\ imp.pc = "history"
    /\ imp' = ExitFailed([imp EXCEPT !.poolOut = @ - 1])
    /\ UNCHANGED <<store, ingest, srv, products, import_history, requestVars>>

\* The process is gone; the script can be run again.
ImportExits ==
    /\ imp.pc = "exited"
    /\ imp' = NoImport
    /\ UNCHANGED <<store, ingest, srv, products, import_history, requestVars>>

ImportNext ==
    \/ StartBatchImport
    \/ ClientConnected
    \/ ConnectRejected
    \/ BeginAnswered
    \/ InsertAnswered
    \/ CommitAnswered
    \/ BatchStatementRejected
    \/ RollbackAnswered
    \/ RollbackRejected
    \/ StartSingleImport
    \/ UpsertAnswered
    \/ UpsertRejected
    \/ HistoryAnswered
    \/ HistoryRejected
    \/ ImportExits

\* The imports alone, over a table of at most one row.
ImportInit ==
    /\ products \in {t \in Catalogs : Cardinality(t) <= 1}
    /\ Quiet

ImportSpec == ImportInit /\ [][ImportNext]_vars

----------------------------------------------------------------------------
(* The ingest script (scripts/ingest-csv.js): every .csv file of           *)
(* data/inbox is imported by a child process running import-csv.js and     *)
(* then moved to data/done or data/failed.                                 *)

\* The .csv files an inbox may hold.
MaxFiles == 2

\* A file of the inbox
InboxFile(stem, ext, parses, records) ==
    [stem |-> stem, ext |-> ext, parses |-> parses, records |-> records]

\* What a dropped file may contain: lines that csv-parse refuses (a record
\* with more columns than the header), a header line alone, one complete
\* record, one record without produktname.
IngestContents ==
    { [parses |-> FALSE, records |-> <<>>],
      [parses |-> TRUE, records |-> <<>>],
      [parses |-> TRUE,
       records |-> <<CsvRecord(<<"2">>, <<"a">>, <<"y">>, EmptyString, Undefined, Undefined, Undefined)>>],
      [parses |-> TRUE,
       records |-> <<CsvRecord(<<"2">>, EmptyString, <<"x">>, Nan, Nan, <<"c">>, Nan)>>] }

CsvFileNames == 1..MaxFiles

\* The files that may lie in data/inbox: .csv files and a file of another
\* kind.
InboxFiles ==
    {InboxFile(n, "csv", c.parses, c.records) : n \in CsvFileNames, c \in IngestContents}
        \cup {InboxFile(0, "txt", TRUE, <<>>)}

Inboxes ==
    {b \in SUBSET InboxFiles :
        \A f, g \in b : (f.stem = g.stem /\ f.ext = g.ext) => f = g}

\* file.endsWith('.csv')
EndsWithCsv(f) == f.ext = "csv"

\* The orders in which readdirSync may list a set of files
Listings(files) ==
    {l \in [1..Cardinality(files) -> files] : \A i, j \in 1..Cardinality(files) : l[i] = l[j] => i = j}

\* The file system call of a block of processFile that throws, if one does
FsFaults == {"none", "rename", "write"}

\* node import-csv.js <file>: the child process up to its first await.  A
\* file that parse() refuses makes importCSV reject before db.connect().
Spawn(f, mode, env) ==
    IF ~f.parses THEN ExitFailed(NoImport)
    ELSE IF mode = "batch" THEN BatchImportOf(f.records, env)
    ELSE SingleImportOf(f.records)

ImportModes == {"batch", "single"}

\* fs.renameSync(filePath, <dir>/<timestamp>_<filename>); the timestamp is
\* the time the file's turn began.
Moved(g, f, dir) ==
    IF dir = "done"
    THEN [g EXCEPT !.inbox = @ \ {f}, !.done = @ \cup {[stamp |-> g.k, file |-> f]}]
    ELSE [g EXCEPT !.inbox = @ \ {f}, !.failed = @ \cup {[stamp |-> g.k, file |-> f]}]

\* fs.writeFileSync(<dir>/<timestamp>_<filename><suffix>, JSON.stringify({...}))
Logged(g, f, dir, suffix, status, out) ==
    [g EXCEPT !.logs = @ \cup {[dir |-> dir, stamp |-> g.k, stem |-> f.stem, ext |-> f.ext,
                                 suffix |-> suffix, status |-> status,
                                 success |-> out.success, failed |-> out.failed]}]

\* The try block of processFile after execPromise has resolved
TryBlock(g, f, out, t) ==
    IF t = "rename" THEN [g |-> [g EXCEPT !.fsFailed = TRUE], thrown |-> TRUE]
    ELSE IF t = "write"
         THEN [g |-> [Moved(g, f, "done") EXCEPT !.fsFailed = TRUE], thrown |-> TRUE]
         ELSE [g |-> Logged(Moved(g, f, "done"), f, "done", ".log", "success", out),
               thrown |-> FALSE]

\* The catch block of processFile: renameSync throws ENOENT when the file
\* is no longer in the inbox.
CatchBlock(g, f, out, c) ==
    IF f \notin g.inbox THEN [g |-> g, thrown |-> TRUE]
    ELSE IF c = "rename" THEN [g |-> [g EXCEPT !.fsFailed = TRUE], thrown |-> TRUE]
    ELSE IF c = "write"
         THEN [g |-> [Moved(g, f, "failed") EXCEPT !.fsFailed = TRUE], thrown |-> TRUE]
         ELSE [g |-> Logged(Moved(g, f, "failed"), f, "failed", ".error.log", "failed", out),
               thrown |-> FALSE]

\* processFile from the settling of execPromise on: exec rejects when the
\* child's exit code is not 0.
ProcessFile(g, f, exitCode, out, t, c) ==
    LET tried == IF exitCode = 0 THEN TryBlock(g, f, out, t)
                 ELSE [g |-> g, thrown |-> TRUE]
    IN  IF tried.thrown THEN CatchBlock(tried.g, f, out, c) ELSE tried

\* npm run ingest: the .csv files of the inbox are listed; without one the
\* script ends, otherwise the import of the first is started.
IngestStarts ==
    /\ ingest.pc = "idle" /\ imp.pc = "idle"
    /\ \E files \in Listings({f \in ingest.inbox : EndsWithCsv(f)}) :
          IF Len(files) = 0
          THEN /\ ingest' = [ingest EXCEPT !.pc = "exited", !.exitCode = 0]
               /\ UNCHANGED imp
          ELSE /\ ingest' = [ingest EXCEPT !.pc = "exec", !.files = files, !.k = 1]
               /\ \E mode \in ImportModes, env \in BatchSizeEnv :
                     imp' = Spawn(files[1], mode, env)
    /\ UNCHANGED <<store, srv, products, import_history, requestVars>>

\* The child process has exited: execPromise settles, the file is moved and
\* its log written; the loop goes on with the next file, or ingestAllCSVs
\* resolves and the script exits with 0.  An error thrown in the catch
\* block of processFile leaves the loop: the script exits with 1.
ExecSettled ==
    /\ ingest.pc = "exec" /\ imp.pc = "exited"
    /\ \E t \in FsFaults, c \in FsFaults :
          LET r == ProcessFile(ingest, ingest.files[ingest.k], imp.exitCode,
                               imp.scan.results, t, c)
          IN  IF r.thrown
              THEN /\ ingest' = [r.g EXCEPT !.pc = "exited", !.exitCode = 1]
                   /\ imp' = NoImport
              ELSE IF ingest.k = Len(ingest.files)
              THEN /\ ingest' = [r.g EXCEPT !.pc = "exited", !.exitCode = 0]
                   /\ imp' = NoImport
              ELSE /\ ingest' = [r.g EXCEPT !.k = @ + 1]
                   /\ \E mode \in ImportModes, env \in BatchSizeEnv :
                         imp' = Spawn(ingest.files[ingest.k + 1], mode, env)
    /\ UNCHANGED <<store, srv, products, import_history, requestVars>>

IngestNext ==
    \/ IngestStarts
    \/ ExecSettled
    \/ ClientConnected
    \/ ConnectRejected
    \/ BeginAnswered
    \/ InsertAnswered
    \/ CommitAnswered
    \/ BatchStatementRejected
    \/ RollbackAnswered
    \/ RollbackRejected
    \/ UpsertAnswered
    \/ UpsertRejected
    \/ HistoryAnswered
    \/ HistoryRejected

\* The ingest script before it is started, over an empty table and an inbox
\* of dropped files.
IngestInit ==
    /\ products = {}
    /\ pc = "idle"
    /\ route = ""
    /\ reqQuery = NoRequest
    /\ locals = NoLocals
    /\ calls = <<>>
    /\ hung = FALSE
    /\ res = NoResponse
    /\ conn = FALSE
    /\ checkedOut = 0
    /\ others = 0
    /\ imp = NoImport
    /\ import_history = <<>>
    /\ srv = Running
    /\ store = SchemaSqlStore
    /\ \E inbox \in Inboxes : ingest = [NoIngest EXCEPT !.inbox = inbox]

IngestSpec == IngestInit /\ [][IngestNext]_vars

----------------------------------------------------------------------------

Next ==
    \/ BeginProducts
    \/ ResultAnswer
    \/ CountAnswer
    \/ ManufacturersAnswer
    \/ CategoriesAnswer
    \/ BeginListing
    \/ ListRowsAnswer
    \/ ListCountAnswer
    \/ BeginProduct
    \/ BySkuAnswer
    \/ DetailCategoriesAnswer
    \/ BeginHealth
    \/ HealthAnswer
    \/ QueryRejected
    \/ StoreSilent
    \/ RequestEnds

Spec == Init /\ [][Next]_vars

\* The same handlers over catalogs that fill more than one page.
PageInit ==
    /\ products \in LongCatalogs
    /\ Quiet

PageSpec == PageInit /\ [][Next]_vars

\* Node's event loop runs every continuation whose promise has settled, and a
\* store that is up answers; nothing obliges the store to answer or to fail.
Handler ==
    \/ ResultAnswer
    \/ CountAnswer
    \/ ManufacturersAnswer
    \/ CategoriesAnswer
    \/ ListRowsAnswer
    \/ ListCountAnswer
    \/ BySkuAnswer
    \/ DetailCategoriesAnswer
    \/ HealthAnswer
    \/ QueryRejected

FairSpec == Spec /\ WF_vars(Handler)

\* GET /product/:sku alone, over every catalog.
DetailNext ==
    \/ BeginProduct
    \/ BySkuAnswer
    \/ DetailCategoriesAnswer
    \/ QueryRejected
    \/ RequestEnds

DetailSpec == Init /\ [][DetailNext]_vars

\* GET /products with filters alone; the statements it builds do not depend
\* on the rows, so the table holds at most one.
SearchNext ==
    \/ BeginProducts
    \/ ResultAnswer
    \/ CountAnswer
    \/ ManufacturersAnswer
    \/ CategoriesAnswer
    \/ QueryRejected
    \/ RequestEnds

SearchInit ==
    /\ products \in {t \in Catalogs : Cardinality(t) <= 1}
    /\ Quiet

SearchSpec == SearchInit /\ [][SearchNext]_vars

----------------------------------------------------------------------------
(* The server and the import script side by side.                          *)

\* The files of one complete record.
ServerCsvFiles == {f \in CsvFiles : Len(f) = 1 /\ RowValid(f[1])}

\* GET /products, with or without a manufacturer
BeginBrowse ==
    \E m \in {Undefined, <<"x">>} : ProductsRequest(Undefined, m, Undefined, Undefined)

BatchImportBesideServer == \E records \in ServerCsvFiles : StartBatch(records, Undefined)

SingleImportBesideServer == \E records \in ServerCsvFiles : StartSingle(records)

ServerNext ==
    \/ BeginBrowse
    \/ ResultAnswer
    \/ CountAnswer
    \/ ManufacturersAnswer
    \/ CategoriesAnswer
    \/ BeginProduct
    \/ BySkuAnswer
    \/ DetailCategoriesAnswer
    \/ BeginHealth
    \/ HealthAnswer
    \/ QueryRejected
    \/ RequestEnds
    \/ BatchImportBesideServer
    \/ ClientConnected
    \/ ConnectRejected
    \/ BeginAnswered
    \/ InsertAnswered
    \/ CommitAnswered
    \/ BatchStatementRejected
    \/ RollbackAnswered
    \/ RollbackRejected
    \/ SingleImportBesideServer
    \/ UpsertAnswered
    \/ UpsertRejected
    \/ HistoryAnswered
    \/ HistoryRejected
    \/ ImportExits

ServerSpec == ImportInit /\ [][ServerNext]_vars

----------------------------------------------------------------------------
(* Setting the schema up, and importing into what the scripts left.        *)

\* The seed rows of schema.sql (five in the script, two here), with
\* variant_name and product_group filled.
SeedRows ==
    { Row(<<"3">>, [name |-> <<"a">>, variant_name |-> <<"b">>, manufacturer |-> <<"x">>,
                    product_group |-> <<"c">>, description |-> <<"<p>", "d", "</p>">>,
                    category |-> <<"c">>], TRUE),
      Row(<<"4">>, [name |-> <<"d">>, variant_name |-> <<"a">>, manufacturer |-> <<"y">>,
                    product_group |-> <<"c">>, description |-> <<"<p>", "b", "</p>">>,
                    category |-> <<"d">>], TRUE) }

\* psql -f scripts/schema.sql: both tables are dropped and created again,
\* the seed rows are inserted.
RunSchemaSql ==
    /\ imp.pc = "idle"
    /\ store' = [store EXCEPT !.schema = SchemaSql]
    /\ products' = SeedRows
    /\ import_history' = <<>>
    /\ UNCHANGED <<ingest, srv, imp, requestVars>>

\* node scripts/setup-database.js
RunSetupDatabase ==
    /\ imp.pc = "idle"
    /\ \E version \in SetupVersions :
          store' = [store EXCEPT !.schema = SetupDatabase(@, version)]
    /\ UNCHANGED <<ingest, srv, products, import_history, imp, requestVars>>

StoreNext ==
    \/ RunSchemaSql
    \/ RunSetupDatabase
    \/ BatchImportBesideServer
    \/ ClientConnected
    \/ ConnectRejected
    \/ BeginAnswered
    \/ InsertAnswered
    \/ CommitAnswered
    \/ BatchStatementRejected
    \/ RollbackAnswered
    \/ RollbackRejected
    \/ SingleImportBesideServer
    \/ UpsertAnswered
    \/ UpsertRejected
    \/ HistoryAnswered
    \/ HistoryRejected
    \/ ImportExits

\* A database in which no script has run yet.
StoreInit ==
    /\ products = {}
    /\ Idle
    /\ store = [schema |-> NoSchema, reachable |-> TRUE]

StoreSpec == StoreInit /\ [][StoreNext]_vars

----------------------------------------------------------------------------
(* The pool under load: the store calls of other requests of the same      *)
(* server hold connections of the same pool.                               *)

\* The store calls other requests may have in flight at once.
MaxOthers == 21

\* Another request's db.query gets a connection.
OtherQueryIssued ==
    /\ others < MaxOthers
    /\ PoolHasRoom(checkedOut)
    /\ others' = others + 1
    /\ checkedOut' = checkedOut + 1
    /\ UNCHANGED <<store, ingest, srv, products, import_history, imp, pc, route, reqQuery, locals, calls,
                   hung, res, conn>>

\* Another request's db.query is answered or fails.
OtherQuerySettled ==
    /\ others > 0
    /\ others' = others - 1
    /\ checkedOut' = checkedOut - 1
    /\ UNCHANGED <<store, ingest, srv, products, import_history, imp, pc, route, reqQuery, locals, calls,
                   hung, res, conn>>

\* GET /products without parameters
BeginPlain == ProductsRequest(Undefined, Undefined, Undefined, Undefined)

\* The files imported beside the loaded server: two complete records of
\* different skus.
PoolCsvFiles ==
    {f \in CsvFiles : /\ Len(f) = 2
                      /\ \A k \in 1..2 : RowValid(f[k]) /\ Truthy(f[k].manufacturer)
                      /\ f[1].artikelnummer # f[2].artikelnummer}

\* The batch script is run, once to its end.
BatchImportBesidePool ==
    /\ import_history = <<>>
    /\ \E records \in PoolCsvFiles, env \in BatchSizeEnv : StartBatch(records, env)

PoolNext ==
    \/ OtherQueryIssued
    \/ OtherQuerySettled
    \/ BeginPlain
    \/ ResultAnswer
    \/ CountAnswer
    \/ ManufacturersAnswer
    \/ BeginHealth
    \/ HealthAnswer
    \/ ConnectionGranted
    \/ QueryRejected
    \/ StoreSilent
    \/ RequestEnds
    \/ BatchImportBesidePool
    \/ ClientConnected
    \/ ConnectRejected
    \/ BeginAnswered
    \/ InsertAnswered
    \/ CommitAnswered
    \/ BatchStatementRejected
    \/ RollbackAnswered
    \/ RollbackRejected
    \/ HistoryAnswered
    \/ HistoryRejected
    \/ ImportExits

PoolInit ==
    /\ products = {}
    /\ Quiet

PoolSpec == PoolInit /\ [][PoolNext]_vars

----------------------------------------------------------------------------
(* The life of the server process (app.js, config/database.js): the        *)
(* startup query, errors of idle clients, the store going away and coming  *)
(* back, and the shutdown on SIGTERM or SIGINT.                            *)

\* The signals a process may receive before it is gone.
MaxSignals == 2

\* process.exit(code)
Exited(v, code) == [v EXCEPT !.state = "exited", !.exitCode = code]

\* console.log / console.error
Logging(v, line) == [v EXCEPT !.log = @ \cup {line}]

\* The callback of db.end: console.log('Database pool closed'); process.exit(0)
PoolEndCallback(v) == Exited(Logging(v, "Database pool closed"), 0)

\* db.end(callback) of pg's Pool.  The first call marks the pool as ending;
\* the pool has ended, and the callback runs, when no client is out in a
\* query: at once, or when the last client is released.  A later call runs
\* its callback at once with the error 'Called end on pool more than once'.
DbEnd(v) ==
    IF v.pool = "open"
    THEN IF v.startup = "pending" THEN [v EXCEPT !.pool = "ending"]
         ELSE PoolEndCallback([v EXCEPT !.pool = "ended"])
    ELSE PoolEndCallback(v)

\* The callback given to server.close
CloseCallback(v) == DbEnd(Logging(v, "HTTP server closed"))

RECURSIVE RunCloseCallbacks(_, _)
\* The 'close' event runs the n callbacks registered for it, one after the
\* other, until one of them ends the process.
RunCloseCallbacks(v, n) ==
    IF n = 0 \/ v.state = "exited" THEN v
    ELSE RunCloseCallbacks(CloseCallback(v), n - 1)

\* A client of the pool comes back from its query: a pool that is ending
\* has now ended.
ClientReleased(v) ==
    IF v.pool = "ending" THEN PoolEndCallback([v EXCEPT !.pool = "ended"]) ELSE v

\* server.close(callback): a listening server stops listening; the callback
\* waits for the 'close' event, also when the server is closing or closed
\* already.
ServerClose(v) ==
    [v EXCEPT !.server = IF @ = "listening" THEN "closing" ELSE @,
              !.closeCallbacks = @ + 1]

\* shutdown(): server.close(...) and the timer of 10 seconds
Shutdown(v) ==
    [ServerClose(Logging(v, "Received shutdown signal, closing HTTP server..."))
        EXCEPT !.timers = @ + 1]

\* The process is gone, and with it the request it was serving.
ProcessGone ==
    /\ pc' = "idle"
    /\ route' = ""
    /\ reqQuery' = NoRequest
    /\ locals' = NoLocals
    /\ calls' = <<>>
    /\ hung' = FALSE
    /\ res' = NoResponse
    /\ conn' = FALSE
    /\ checkedOut' = 0
    /\ UNCHANGED others

\* SIGTERM or SIGINT arrives: both run shutdown.
Signal ==
    /\ srv.state = "running"
    /\ srv.signals < MaxSignals
    /\ srv' = [Shutdown(srv) EXCEPT !.signals = @ + 1]
    /\ UNCHANGED <<store, ingest, products, import_history, imp, requestVars>>

\* The last connection of the closing server is gone: 'close' is emitted
\* and the callbacks waiting for it run.  A server.close on a server that
\* had closed before has the event emitted again.
ServerCloseEmitted ==
    /\ srv.state = "running"
    /\ srv.server \in {"closing", "closed"}
    /\ srv.closeCallbacks > 0
    /\ pc = "idle"
    /\ srv' = RunCloseCallbacks([srv EXCEPT !.server = "closed", !.closeCallbacks = 0],
                                srv.closeCallbacks)
    /\ UNCHANGED <<store, ingest, products, import_history, imp, requestVars>>

\* 10 seconds after a signal: process.exit(1)
TimerFires ==
    /\ srv.state = "running"
    /\ srv.timers > 0
    /\ srv' = Exited(Logging(srv, "Could not close connections in time, forcefully shutting down"), 1)
    /\ ProcessGone
    /\ UNCHANGED <<store, ingest, products, import_history, imp>>

\* pool.query('SELECT NOW()', ...) of config/database.js is answered.
StartupTestAnswered ==
    /\ srv.state = "running"
    /\ srv.startup = "pending"
    /\ store.reachable
    /\ srv' = ClientReleased(Logging([srv EXCEPT !.startup = "ok"],
                                     "Database connection established"))
    /\ UNCHANGED <<store, ingest, products, import_history, imp, requestVars>>

\* The startup query fails and the process exits.
StartupTestFailedExits ==
    /\ srv.state = "running"
    /\ srv.startup = "pending"
    /\ srv' = Exited(Logging([srv EXCEPT !.startup = "failed"], "Database connection failed"), 1)
    /\ ProcessGone
    /\ UNCHANGED <<store, ingest, products, import_history, imp>>

\* The startup query fails (no connection within connectionTimeoutMillis,
\* or the store refuses): the callback logs and returns.
StartupTestFailed ==
    /\ srv.state = "running"
    /\ srv.startup = "pending"
    /\ srv' = ClientReleased(Logging([srv EXCEPT !.startup = "failed"],
                                     "Database connection failed"))
    /\ UNCHANGED requestVars
    /\ UNCHANGED <<store, ingest, products, import_history, imp>>

\* pool.on('error'): an idle client of the pool reports an error, as when
\* the store ends its connection.
PoolErrorEvent ==
    /\ srv.state = "running"
    /\ srv.pool = "open"
    /\ srv.startup = "ok"
    /\ srv' = Logging(srv, "Unexpected database error")
    /\ UNCHANGED <<store, ingest, products, import_history, imp, requestVars>>

\* The store cannot be reached any more.
StoreLost ==
    /\ store.reachable
    /\ store' = [store EXCEPT !.reachable = FALSE]
    /\ UNCHANGED <<ingest, srv, products, import_history, imp, requestVars>>

\* The store can be reached again.
StoreBack ==
    /\ ~store.reachable
    /\ store' = [store EXCEPT !.reachable = TRUE]
    /\ UNCHANGED <<ingest, srv, products, import_history, imp, requestVars>>

LifeNext ==
    \/ Signal
    \/ ServerCloseEmitted
    \/ TimerFires
    \/ StartupTestAnswered
    \/ StartupTestFailed
    \/ PoolErrorEvent
    \/ StoreLost
    \/ StoreBack
    \/ BeginHealth
    \/ HealthAnswer
    \/ ConnectionGranted
    \/ QueryRejected
    \/ StoreSilent
    \/ RequestEnds

\* The process has just been started, over a store that can or cannot be
\* reached.
LifeInit ==
    /\ products = {}
    /\ pc = "idle"
    /\ route = ""
    /\ reqQuery = NoRequest
    /\ locals = NoLocals
    /\ calls = <<>>
    /\ hung = FALSE
    /\ res = NoResponse
    /\ conn = FALSE
    /\ checkedOut = 0
    /\ others = 0
    /\ imp = NoImport
    /\ import_history = <<>>
    /\ ingest = NoIngest
    /\ srv = Started
    /\ \E up \in BOOLEAN : store = [SchemaSqlStore EXCEPT !.reachable = up]

LifeSpec == LifeInit /\ [][LifeNext]_vars

\* Node runs a timer that is due.
LifeFairSpec == LifeSpec /\ WF_vars(TimerFires)

----------------------------------------------------------------------------
(* What a request asks for, read off the request itself.                   *)

\* The rows visible to the search engine.
Visible == {r \in products : r.active}

\* A filter value is given: the parameter is a non-empty string.
Selected(v) == v # Undefined /\ v # Null /\ v # EmptyString

\* A text filter is given: the text is non-empty after trimming.
TextGiven == Selected(reqQuery.q) /\ Trim(reqQuery.q) # EmptyString

\* r satisfies every filter the request gives; a filter not given constrains
\* nothing.
MatchesFilters(r) ==
    /\ TextGiven => TsMatch(SearchVector(r), PlaintoTsquery(Trim(reqQuery.q)))
    /\ Selected(reqQuery.manufacturer) => r.manufacturer = reqQuery.manufacturer
    /\ Selected(reqQuery.category) => r.category = reqQuery.category

\* The active products the request's filters select.
Expected == {r \in Visible : MatchesFilters(r)}

Range(seq) == {seq[i] : i \in 1..Len(seq)}

CallNames == {calls[i].name : i \in 1..Len(calls)}
CallNamed(name) == calls[CHOOSE i \in 1..Len(calls) : calls[i].name = name]

\* searchProducts or getAllProducts has returned its totalCount.
CountKnown ==
    \/ route = "/products" /\ CallNames \cap {"manufacturers"} # {}
    \/ route = "/products (listing)" /\ res.view = "products"

\* The manufacturer whose categories the request asked the store for.
CategoriesOf ==
    IF route = "/product/:sku" THEN locals.product[1].manufacturer
    ELSE locals.manufacturer

----------------------------------------------------------------------------
(* C1: in every catalog and for every request, a product with active =     *)
(* false is in no list of items returned by searchProducts or              *)
(* getAllProducts, is not counted in totalCount, is counted in no          *)
(* manufacturer or category facet, and is not returned by getProductBySku. *)

C1_InactiveNeverVisible ==
    /\ \A r \in Range(locals.products) : r \in Visible
    /\ CountKnown => locals.totalCount = Cardinality(Expected)
    /\ \A e \in Range(locals.manufacturers) :
          /\ e.product_count = Cardinality({r \in Visible : r.manufacturer = e.value})
          /\ e.product_count > 0
    /\ \A e \in Range(locals.categories) :
          /\ e.product_count =
                Cardinality({r \in Visible : r.manufacturer = CategoriesOf
                                             /\ r.category = e.value})
          /\ e.product_count > 0
    /\ \A r \in Range(locals.product) : r \in Visible

\* A rendered search over a catalog that holds an inactive product which
\* satisfies every filter of the request, and whose facets are not empty.
C1_Witness ==
    /\ route = "/products" /\ res.status = 200
    /\ Selected(reqQuery.manufacturer) /\ TextGiven
    /\ \E r \in products : ~r.active /\ MatchesFilters(r)
    /\ locals.products # <<>>
    /\ locals.categories # <<>>

----------------------------------------------------------------------------
(* C2: for each of the 8 combinations of given and missing text,           *)
(* manufacturer and category, the count query carries the predicates and   *)
(* the bound values of the result query without its ORDER BY, LIMIT and    *)
(* OFFSET, and totalCount is the number of rows the result query selects   *)
(* before pagination.                                                      *)

C2_CountMatchesResult ==
    (route = "/products" /\ "count" \in CallNames) =>
        LET rq == CallNamed("result").sql
            cq == CallNamed("count").sql
        IN  /\ cq.where = rq.where
            /\ Len(rq.params) = Len(cq.params) + 2
            /\ cq.params = SubSeq(rq.params, 1, Len(cq.params))
            /\ {rq.limitPh, rq.offsetPh} = {Len(cq.params) + 1, Len(cq.params) + 2}
            /\ CountKnown => locals.totalCount = Cardinality(WhereRows(products, rq))

\* All three filters given, and the count is not zero.
C2_Witness ==
    /\ route = "/products" /\ res.status = 200
    /\ TextGiven /\ Selected(reqQuery.manufacturer) /\ Selected(reqQuery.category)
    /\ Len(CallNamed("count").sql.params) = 3
    /\ locals.totalCount > 0

----------------------------------------------------------------------------
(* C3: the filters given are ANDed and independent: the result before      *)
(* pagination is exactly the set of active products that satisfy every     *)
(* filter given, and a filter not given constrains nothing.  The first     *)
(* page holds the whole result when it has at most PageSize rows.          *)

C3_FiltersAnded ==
    route = "/products" =>
        /\ Range(locals.products) \subseteq Expected
        /\ ("count" \in CallNames /\ locals.page = 1 /\ Cardinality(Expected) <= PageSize)
              => Range(locals.products) = Expected
        /\ WhereRows(products, CallNamed("result").sql) = Expected
        /\ CountKnown => locals.totalCount = Cardinality(Expected)

\* A text and a manufacturer are given; one active product satisfies both and
\* is returned, another satisfies only the text and is not.
C3_Witness ==
    /\ route = "/products" /\ res.status = 200
    /\ TextGiven /\ Selected(reqQuery.manufacturer) /\ ~Selected(reqQuery.category)
    /\ locals.products # <<>>
    /\ \E r \in Visible :
          /\ r.manufacturer # reqQuery.manufacturer
          /\ TsMatch(SearchVector(r), PlaintoTsquery(Trim(reqQuery.q)))
          /\ r \notin Range(locals.products)

----------------------------------------------------------------------------
(* C4: a page value <= 0 is clamped to 1 and never rejected: the page      *)
(* handed to searchProducts is >= 1, the OFFSET is never negative, and the *)
(* store does not refuse the statement.                                    *)

C4_PageClamped ==
    route = "/products" =>
        /\ locals.page >= 1
        /\ LET rq == CallNamed("result").sql IN rq.params[rq.offsetPh] >= 0
        /\ locals.error # OffsetError

----------------------------------------------------------------------------
(* C5: the category facet of a /products response is empty whenever the    *)
(* request names no manufacturer (absent or empty), whatever its text,     *)
(* category and page; getCategoriesForManufacturer is called only when a   *)
(* manufacturer is selected.                                               *)

C5_NoManufacturerNoCategories ==
    (route = "/products" /\ ~Selected(reqQuery.manufacturer)) =>
        /\ "categories" \notin CallNames
        /\ locals.categories = <<>>
        /\ res.view = "products" => res.body.categories = <<>>

\* A rendered search with text, category and page but an empty manufacturer,
\* over a catalog whose visible products have categories.
C5_Witness ==
    /\ route = "/products" /\ res.status = 200
    /\ reqQuery.manufacturer = EmptyString
    /\ TextGiven /\ Selected(reqQuery.category) /\ Selected(reqQuery.page)
    /\ \E r \in Visible : r.category # Null
    /\ res.body.categories = <<>>

----------------------------------------------------------------------------
(* C6: with a manufacturer M selected, the category facet lists the        *)
(* categories of M's active products, each with the number of M's active   *)
(* products in it, in ascending order; it depends on M and the catalog     *)
(* alone, so requests that differ in text, category or page get the same.  *)

CategoryFacetOf(m) ==
    LET mine == {r \in Visible : r.manufacturer = m}
    IN  {[value |-> c, product_count |-> Cardinality({r \in mine : r.category = c})] :
            c \in {r.category : r \in mine} \ {Null}}

Ascending(facet) ==
    \A i, j \in 1..Len(facet) :
        i < j => facet[i].value # facet[j].value /\ StrLeq(facet[i].value, facet[j].value)

C6_CategoryFacetByManufacturer ==
    (route = "/products" /\ res.view = "products" /\ Selected(reqQuery.manufacturer)) =>
        /\ Range(res.body.categories) = CategoryFacetOf(reqQuery.manufacturer)
        /\ Ascending(res.body.categories)

\* Text, category and page are given, no product satisfies them all, and the
\* facet still lists the manufacturer's two categories.
C6_Witness ==
    /\ route = "/products" /\ res.status = 200
    /\ Selected(reqQuery.manufacturer)
    /\ TextGiven /\ Selected(reqQuery.category) /\ Selected(reqQuery.page)
    /\ res.body.products = <<>>
    /\ Len(res.body.categories) = 2

----------------------------------------------------------------------------
(* C7: the manufacturer facet of a /products response reflects the whole   *)
(* active catalog: it lists every manufacturer of an active product with   *)
(* the number of all its active products, whatever the text, manufacturer, *)
(* category and page of the request.                                       *)

ManufacturerFacetOfCatalog ==
    {[value |-> m, product_count |-> Cardinality({r \in Visible : r.manufacturer = m})] :
        m \in {r.manufacturer : r \in Visible}}

C7_ManufacturerFacetWholeCatalog ==
    (route = "/products" /\ res.view = "products") =>
        /\ Range(res.body.manufacturers) = ManufacturerFacetOfCatalog
        /\ Ascending(res.body.manufacturers)

\* Every filter is given and selects nothing, an inactive product exists, and
\* the facet lists both manufacturers.
C7_Witness ==
    /\ route = "/products" /\ res.status = 200
    /\ TextGiven /\ Selected(reqQuery.manufacturer) /\ Selected(reqQuery.category)
    /\ Selected(reqQuery.page)
    /\ res.body.products = <<>>
    /\ Len(res.body.manufacturers) = 2

----------------------------------------------------------------------------
(* C8: when a store query of a /products request fails, the request ends   *)
(* with status 500 and the text 'Server error': no bundle is rendered, in  *)
(* particular no empty result, and no query is issued a second time.       *)

C8_StoreFailureIs500 ==
    route = "/products" =>
        /\ locals.error # "" => (pc = "done" /\ res = ServerError)
        /\ res.status = 500 => res.view = "send"
        /\ res.view = "products" => (locals.error = "" /\ res.status = 200)
        /\ \A i, j \in 1..Len(calls) : calls[i].name = calls[j].name => i = j

\* The category facet query fails after the result query returned rows.
C8_Witness ==
    /\ route = "/products" /\ pc = "done"
    /\ locals.error = StoreUnavailable
    /\ "categories" \in CallNames
    /\ locals.products # <<>>
    /\ res.status = 500

----------------------------------------------------------------------------
(* C9: every store call is bounded by a connection or query timeout: while *)
(* a request awaits the store, also a store that never answers, some       *)
(* continuation of the handler (answer, rejection, timeout) can run.       *)

C9_EveryCallBounded == pc \in QueryPcs => ENABLED Handler

\* The same as a progress property: a request that awaits the store
\* eventually completes.
C9_EventuallyCompletes == (pc \in QueryPcs) ~> (pc = "done")

----------------------------------------------------------------------------
(* C10: a filter value that matches no product is a valid input: unless    *)
(* the store is unavailable, the request ends with status 200, items = [], *)
(* totalCount = 0 and totalPages = 0.                                      *)

C10_UnmatchedFilterSucceeds ==
    (/\ route = "/products" /\ pc = "done"
     /\ TextGiven \/ Selected(reqQuery.manufacturer) \/ Selected(reqQuery.category)
     /\ Expected = {}
     /\ locals.error # StoreUnavailable) =>
        /\ res.status = 200
        /\ res.body.products = <<>>
        /\ res.body.pagination.totalCount = 0
        /\ res.body.pagination.totalPages = 0

----------------------------------------------------------------------------
\* searchProducts has got the rows of its result query.
ResultKnown == route = "/products" /\ "count" \in CallNames

\* The relevance rank of a row against the request's trimmed text.
RankOf(r) == TsRank(SearchVector(r), PlaintoTsquery(Trim(reqQuery.q)))

(* C11: a search is deterministic: against the unmodified store the result *)
(* statement of a request has one possible answer, so a second identical   *)
(* request returns the same items in the same order, also when matching    *)
(* products have equal rank or equal name.                                 *)
C11_SearchDeterministic ==
    ResultKnown =>
        \A ans \in ExecSelect(products, CallNamed("result").sql) :
            ans.rows = locals.products

----------------------------------------------------------------------------
----------------------------------------------------------------------------
\* The statements the same request issues when it carries no text.
ResultSqlWithoutText ==
    ResultSql(EmptyString, OrElse(reqQuery.manufacturer, Null),
              OrElse(reqQuery.category, Null), ParsePage(reqQuery.page), PageSize)

CountSqlWithoutText ==
    CountSql(EmptyString, OrElse(reqQuery.manufacturer, Null),
             OrElse(reqQuery.category, Null))

(* C15: the text is trimmed before use.  A text that is empty or only      *)
(* white space is no text filter: the store is asked for the same items,   *)
(* in the same order, and the same count as by the request without text.   *)
(* A text that is not empty is bound in its trimmed form in the result     *)
(* query and in the count query.                                           *)
C15_BlankTextIsNoText ==
    (route = "/products" /\ "manufacturers" \in CallNames) =>
        /\ ~TextGiven =>
              /\ ExecSelect(products, CallNamed("result").sql)
                    = ExecSelect(products, ResultSqlWithoutText)
              /\ locals.totalCount = ExecCount(products, CountSqlWithoutText)
        /\ TextGiven =>
              /\ CallNamed("result").sql.where[2] = FtsPred(1)
              /\ CallNamed("result").sql.params[1] = Trim(reqQuery.q)
              /\ CallNamed("count").sql.where[2] = FtsPred(1)
              /\ CallNamed("count").sql.params[1] = Trim(reqQuery.q)

\* A request whose text is one blank is answered with products.
C15_Witness ==
    /\ route = "/products" /\ "manufacturers" \in CallNames
    /\ reqQuery.q = <<SP>>
    /\ Len(locals.products) > 0
    /\ locals.totalCount > 0

\* A request whose text has blanks around it has run both queries.
C15_WitnessTrimmed ==
    /\ route = "/products" /\ "manufacturers" \in CallNames
    /\ reqQuery.q = <<SP, "a", SP>>
    /\ Len(locals.products) > 0

----------------------------------------------------------------------------
\* The answers the store may give to the current request's result query for
\* page p.
PageAnswers(p) ==
    ExecSelect(products,
               ResultSql(locals.query, locals.manufacturer, locals.category, p, PageSize))

\* The number of items the claim gives page p of totalPages.
PageLength(p, totalPages, totalCount) ==
    IF p < totalPages THEN PageSize ELSE totalCount - (totalPages - 1) * PageSize

(* C13: for a fixed filter and an unmodified store the pages 1..totalPages, *)
(* totalPages = ceil(totalCount / 48), cut the result into consecutive      *)
(* windows of 48: every page before the last holds 48 items, the last the   *)
(* remaining totalCount - (totalPages - 1) * 48, and no product of the page *)
(* just rendered is on any other page.                                      *)
C13_PagesPartition ==
    (route = "/products" /\ res.view = "products") =>
        LET totalCount == res.body.pagination.totalCount
            totalPages == res.body.pagination.totalPages
        IN  /\ totalPages = CeilDiv(totalCount, PageSize)
            /\ \A p \in 1..totalPages : \A ans \in PageAnswers(p) :
                  /\ Len(ans.rows) = PageLength(p, totalPages, totalCount)
                  /\ p # locals.page =>
                        Range(ans.rows) \cap Range(res.body.products) = {}

\* The same without the requirement that pages do not overlap.
C13_PageSizes ==
    (route = "/products" /\ res.view = "products") =>
        LET totalCount == res.body.pagination.totalCount
            totalPages == res.body.pagination.totalPages
        IN  /\ totalPages = CeilDiv(totalCount, PageSize)
            /\ \A p \in 1..totalPages : \A ans \in PageAnswers(p) :
                  Len(ans.rows) = PageLength(p, totalPages, totalCount)

----------------------------------------------------------------------------
\* Following href leads to a /products request with the filters of the
\* current one and the given page, and the link carries each of q,
\* manufacturer and category exactly when the current request gives it.
LinkKeeps(href, page) ==
    LET rq == ParseQuery(HtmlUnescape(href))
        f == ReadFilters(rq)
    IN  /\ f.query = locals.query
        /\ f.manufacturer = locals.manufacturer
        /\ f.category = locals.category
        /\ f.page = page
        /\ (rq.q # Undefined) <=> Selected(reqQuery.q)
        /\ (rq.manufacturer # Undefined) <=> Selected(reqQuery.manufacturer)
        /\ (rq.category # Undefined) <=> Selected(reqQuery.category)

(* C14: the previous and next links keep every active filter: the link for *)
(* page p-1 or p+1 carries q, manufacturer and category exactly when they   *)
(* are non-empty, and the /products route reads from it the text,           *)
(* manufacturer and category of the current request with only the page      *)
(* changed.  A previous link exists only when currentPage > 1, a next link  *)
(* only when currentPage < totalPages.                                      *)
C14_LinksKeepFilters ==
    (route = "/products" /\ res.view = "products") =>
        LET links == PaginationLinks(res.body)
            currentPage == res.body.pagination.currentPage
            totalPages == res.body.pagination.totalPages
        IN  /\ links.prev # <<>> =>
                  (currentPage > 1 /\ LinkKeeps(links.prev[1], currentPage - 1))
            /\ links.next # <<>> =>
                  (currentPage < totalPages /\ LinkKeeps(links.next[1], currentPage + 1))

\* Page 1 of 2 of a request with a text, a manufacturer and a category has a
\* next link.
C14_Witness ==
    /\ route = "/products" /\ res.view = "products"
    /\ PaginationLinks(res.body).next # <<>>
    /\ Selected(reqQuery.q) /\ Selected(reqQuery.manufacturer)
    /\ Selected(reqQuery.category)

\* Page 2 of 2 of a request with a manufacturer and a category has a
\* previous link.
C14_WitnessPrevious ==
    /\ route = "/products" /\ res.view = "products"
    /\ PaginationLinks(res.body).prev # <<>>
    /\ Selected(reqQuery.manufacturer) /\ Selected(reqQuery.category)

----------------------------------------------------------------------------
(* C19: ingestion is upsert by sku: after any sequence of imports, row by  *)
(* row or in batches, the table holds at most one row per sku, active or   *)
(* not; a sku that exists is updated, not added a second time.             *)
C19_OneRowPerSku == \A r1, r2 \in products : r1.sku = r2.sku => r1 = r2

\* Two imports have run to their end, each storing a row, and a row that
\* was in the table before them, inactive, now carries imported columns.
C19_Witness ==
    /\ Len(import_history) = 2
    /\ \A k \in 1..2 : import_history[k].rows_imported > 0
    /\ \E r \in products : ~r.active /\ r.manufacturer = Unknown

----------------------------------------------------------------------------
\* The records the record loop has looked at.
Scanned ==
    IF imp.mode = "batch" \/ imp.i > Len(imp.records) THEN 1..Len(imp.records)
    ELSE 1..imp.i

\* Record k lacks its sku or its name.
Incomplete(k) ==
    \/ imp.records[k].artikelnummer \in {Undefined, EmptyString}
    \/ imp.records[k].produktname \in {Undefined, EmptyString}

\* The products sent to the store, or about to be: the accepted products.
Accepted == Range(imp.scan.products)

(* C20: a record without sku or without name never reaches the store: it   *)
(* is counted as failed with an error entry naming its row, no product is   *)
(* built from it and so none is sent in an INSERT, and the records after it *)
(* are still processed.                                                     *)
C20_IncompleteRowsRejected ==
    imp.pc # "idle" =>
        LET bad == {k \in Scanned : Incomplete(k)}
            errors == imp.scan.results.errors
        IN  /\ \A k \in bad : \E n \in 1..Len(errors) :
                  /\ "row" \in DOMAIN errors[n]
                  /\ errors[n].row = k + 1
                  /\ errors[n].error = MissingRequired
            /\ imp.scan.results.failed >= Cardinality(bad)
            /\ \A p \in Accepted :
                  /\ p.sku # EmptyString /\ p.name # EmptyString
                  /\ \E k \in Scanned \ bad :
                        /\ p.sku = Trim(imp.records[k].artikelnummer)
                        /\ p.name = Trim(imp.records[k].produktname)
            /\ Range(imp.tx) \subseteq Accepted
            /\ \A k \in Scanned \ bad :
                  Trim(imp.records[k].artikelnummer) \in {p.sku : p \in Accepted}
            /\ \A r \in products : r.sku # EmptyString /\ r.name # EmptyString

\* A file whose first record has no sku and whose second is complete has
\* been imported: one record failed, one was stored.
C20_Witness ==
    /\ imp.pc = "exited" /\ imp.exitCode = 0
    /\ Len(imp.records) = 2
    /\ imp.records[1].artikelnummer = EmptyString
    /\ imp.scan.results.failed = 1
    /\ imp.scan.results.success = 1
    /\ \E r \in products : r.sku = Trim(imp.records[2].artikelnummer)

----------------------------------------------------------------------------
\* The request's handler has a store call in flight.
AwaitingStore == pc \in QueryPcs

\* The response of GET /products without filter, page 1, is rendered.
PlainRendered ==
    /\ route = "/products" /\ res.view = "products"
    /\ ~Selected(reqQuery.q) /\ ~Selected(reqQuery.manufacturer)
    /\ ~Selected(reqQuery.category)
    /\ locals.page = 1

RECURSIVE SumCounts(_)
\* The sum of the product counts of a facet
SumCounts(facet) ==
    IF facet = <<>> THEN 0 ELSE Head(facet).product_count + SumCounts(Tail(facet))

(* C16: one /products request reads one snapshot of the store: an import   *)
(* committing between its queries cannot make items, totalCount and facet  *)
(* counts describe different catalog states.  For the request without      *)
(* filter over a catalog of less than a page, one state of the catalog     *)
(* means that the number of items, totalCount and the sum of the           *)
(* manufacturer facet's counts are the same number.                        *)
C16_OneSnapshot ==
    PlainRendered =>
        /\ Len(res.body.products) = res.body.pagination.totalCount
        /\ SumCounts(res.body.manufacturers) = res.body.pagination.totalCount

----------------------------------------------------------------------------
(* C17: the pools bound the concurrent store operations and leak nothing:  *)
(* never more than 20 connections are checked out of the server's pool or  *)
(* of the import's, every connection out of the server's pool is held by a *)
(* store call in flight, of this request or of another, and the import     *)
(* holds its client only inside the batch loop and a connection for a      *)
(* db.query only while that query is in flight: when the request has ended *)
(* or the import has exited, by any path, its connections are back.        *)
C17_PoolBoundedNoLeak ==
    /\ checkedOut <= PoolMax
    /\ imp.poolOut <= PoolMax
    /\ checkedOut = others + (IF conn THEN 1 ELSE 0)
    /\ conn => AwaitingStore
    /\ imp.poolOut = (IF imp.client THEN 1 ELSE 0)
                      + (IF imp.pc \in {"upsert", "history"} THEN 1 ELSE 0)
    /\ imp.client => imp.pc \in {"begin", "insert", "commit", "rollback"}
    /\ imp.pc \in {"idle", "connect", "exited"} => imp.poolOut = 0

\* The import has ended on a failing ROLLBACK of its first batch while the
\* server's pool was exhausted and a request waited for a connection.
C17_Witness ==
    /\ imp.pc = "exited" /\ imp.exitCode = 1
    /\ imp.mode = "batch" /\ imp.i = 1 /\ Len(imp.scan.products) = 2
    /\ checkedOut = PoolMax
    /\ AwaitingStore /\ ~conn

----------------------------------------------------------------------------
\* A step of a request handler.
SearchStep == <<pc, route, reqQuery, locals, calls, hung, res>>' #
              <<pc, route, reqQuery, locals, calls, hung, res>>

\* The store calls a successful response of a route is rendered from.
CallsBehind(rt) ==
    CASE rt = "/products" -> {"result", "count", "manufacturers"}
      [] rt = "/product/:sku" -> {"bySku", "detailCategories"}
      [] rt = "/health" -> {"health"}
      [] OTHER -> {"listRows", "listCount"}

(* C18: the search path is read-only and keeps nothing between requests:   *)
(* no step of a /products, /product/:sku or /health request, successful or *)
(* failing, changes a row of products or of import_history; a request      *)
(* starts with no store call answered, every successful response follows   *)
(* the store calls of its route issued for this request, and when the      *)
(* request has ended nothing of it is left for the next.                   *)
C18_SearchPathReadOnly ==
    [][/\ SearchStep => UNCHANGED <<products, import_history>>
       /\ (pc = "idle" /\ pc' # "idle") => (Len(calls') = 1 /\ res' = NoResponse)
       /\ (pc' = "done" /\ res'.status = 200) =>
             CallsBehind(route') \subseteq {calls'[k].name : k \in 1..Len(calls')}
       /\ (pc = "done" /\ pc' = "idle") =>
             (locals' = NoLocals /\ calls' = <<>> /\ reqQuery' = NoRequest)]_vars

\* A request was served while the import had already changed the table.
C18_Witness ==
    /\ pc = "done" /\ res.status = 200
    /\ import_history # <<>>
    /\ Len(calls) >= 2

----------------------------------------------------------------------------
(* C21.  The search index of every row is the four weighted groups.        *)

\* name and variant_name with the highest weight, manufacturer and
\* product_group second, sku third, the description without markup last.
FourGroups(r) ==
    [A |-> ToTsvector(Coalesce(r.name)) \cup ToTsvector(Coalesce(r.variant_name)),
     B |-> ToTsvector(Coalesce(r.manufacturer)) \cup ToTsvector(Coalesce(r.product_group)),
     C |-> ToTsvector(Coalesce(r.sku)),
     D |-> ToTsvector(StripTags(Coalesce(r.description)))]

----------------------------------------------------------------------------
\* The active rows of products with this sku
ActiveWithSku(sku) == {r \in products : r.sku = sku /\ r.active = TRUE}

\* The handler of GET /product/:sku has sent its response.
DetailAnswered == pc = "done" /\ route = "/product/:sku"

(* C22: GET /product/:sku answers 404 exactly when its lookup succeeded    *)
(* and no active product has the sku (unknown sku or inactive product), it *)
(* renders the active product with the categories of its manufacturer when *)
(* there is one, and it answers 500 'Server error', not 404, when a store  *)
(* query failed; the product getProductBySku returned is nothing or the    *)
(* active row with the sku, never an inactive row.                         *)
C22_DetailNotFoundOrServerError ==
    /\ route = "/product/:sku" =>
          \A k \in 1..Len(locals.product) :
             locals.product[k] \in ActiveWithSku(reqQuery.sku)
    /\ DetailAnswered =>
          /\ res.status \in {200, 404, 500}
          /\ res.status = 500 <=> locals.error = StoreUnavailable
          /\ res.status = 500 => res = ServerError
          /\ res.status = 404 <=>
                (locals.error = "" /\ ActiveWithSku(reqQuery.sku) = {})
          /\ res.status = 404 => res = RenderNotFound(reqQuery.sku)
          /\ res.status = 200 =>
                /\ res.view = "product"
                /\ res.body.product = locals.product
                /\ Len(res.body.product) = 1
                /\ res.body.categories =
                      ExecGroupCount(products,
                                     CategoriesSql(res.body.product[1].manufacturer))

\* The sku of an inactive product was asked for and answered with 404.
C22_Witness ==
    /\ DetailAnswered /\ res.status = 404
    /\ \E r \in products : r.sku = reqQuery.sku /\ r.active = FALSE

\* The lookup found the active product and the categories query then failed.
C22_WitnessFailing ==
    /\ DetailAnswered /\ res.status = 500
    /\ Len(locals.product) = 1 /\ Len(calls) = 2

----------------------------------------------------------------------------
\* The folder entries of a file of the listing
InDone(f) == {d \in ingest.done : d.file = f}
InFailed(f) == {d \in ingest.failed : d.file = f}

\* The log files written for a file in a folder
LogsOf(f, dir) ==
    {l \in ingest.logs : l.stem = f.stem /\ l.ext = f.ext /\ l.dir = dir}

(* C23: when a run of ingestAllCSVs has ended, every .csv file that was in *)
(* the inbox when it started has left the inbox and lies in exactly one of *)
(* done/ and failed/, with its log file written there; whatever happened   *)
(* while one file was handled, the files after it were handled too.        *)
C23_EveryFileMovedOnce ==
    ingest.pc = "exited" =>
        \A k \in 1..Len(ingest.files) :
            LET f == ingest.files[k]
            IN  /\ f \notin ingest.inbox
                /\ Cardinality(InDone(f)) + Cardinality(InFailed(f)) = 1
                /\ InDone(f) # {} => LogsOf(f, "done") # {}
                /\ InFailed(f) # {} => LogsOf(f, "failed") # {}

(* C24: a file whose import failed is never moved to done/: the import     *)
(* script exits with code 0 only when no row and no batch was rejected,    *)
(* and every file in done/ was parsed and imported without a rejected row  *)
(* or batch, as its log tells.                                             *)
C24_FailedImportNeverDone ==
    /\ (imp.pc = "exited" /\ imp.exitCode = 0) => imp.scan.results.failed = 0
    /\ \A d \in ingest.done : d.file.parses
    /\ \A l \in ingest.logs : l.dir = "done" => l.failed = 0

----------------------------------------------------------------------------
\* The batched import takes a step.
BatchStep == imp.mode = "batch" /\ imp' # imp

(* C25: in the batched import each batch is its own transaction.  The      *)
(* table changes only when the COMMIT of a batch is answered, and then by  *)
(* all products of that batch; a batch whose BEGIN, INSERT or COMMIT is    *)
(* rejected is rolled back with nothing written, adds its size to the      *)
(* failed count and one entry to the errors; and after a failed batch the  *)
(* import goes on: the next batch is begun or, after the last batch, the   *)
(* import_history row is sent.                                             *)
C25_BatchIsOwnTransaction ==
    [][BatchStep =>
          /\ products' # products => imp.pc = "commit"
          /\ (imp.pc = "commit" /\ imp'.pc # "rollback") =>
                /\ products' = UpsertAll(products, Batch(imp))
                /\ imp'.scan.results.success = imp.scan.results.success + Len(Batch(imp))
          /\ (imp.pc \in {"begin", "insert", "commit"} /\ imp'.pc = "rollback") =>
                products' = products
          /\ imp.pc = "rollback" =>
                /\ products' = products
                /\ imp'.scan.results.failed = imp.scan.results.failed + Len(Batch(imp))
                /\ Len(imp'.scan.results.errors) = Len(imp.scan.results.errors) + 1
                /\ imp'.scan.results.success = imp.scan.results.success
                /\ \/ imp'.pc = "begin" /\ imp'.i = imp.i + imp.batchSize
                   \/ imp'.pc = "history" /\ imp.i + imp.batchSize > Len(imp.scan.products)]_vars

----------------------------------------------------------------------------
\* Record k is complete and no complete record after it has its sku.
IsLastOfSku(k) ==
    /\ RowValid(imp.records[k])
    /\ \A j \in (k + 1)..Len(imp.records) :
          RowValid(imp.records[j]) =>
             Trim(imp.records[j].artikelnummer) # Trim(imp.records[k].artikelnummer)

\* The table holds the values of product p under its sku.
StoredFrom(p) ==
    \E r \in products :
       /\ r.sku = p.sku /\ r.name = p.name /\ r.variant_name = p.variantName
       /\ r.manufacturer = p.manufacturer /\ r.product_group = p.productGroup
       /\ r.description = p.description /\ r.category = p.category

\* The import has run to its end and the store has taken every product
\* sent to it.
ImportedAll ==
    /\ imp.pc = "exited" /\ imp.exitCode = 0
    /\ imp.scan.results.success = Len(imp.scan.products)

(* C26: of several records with the same trimmed sku in one file the last  *)
(* wins: after the import the values stored under the sku are those of the *)
(* last such record; and the products collected for the batches never hold *)
(* two products of one sku.                                                *)
C26_LastOneWins ==
    /\ \A i, j \in 1..Len(imp.scan.products) :
          imp.scan.products[i].sku = imp.scan.products[j].sku => i = j
    /\ ImportedAll =>
          \A k \in 1..Len(imp.records) :
             IsLastOfSku(k) => StoredFrom(ProductOf(imp.records[k]))

----------------------------------------------------------------------------
(* C30: an import upsert of an existing sku leaves active, created_at and  *)
(* id alone: the statement's SET list names none of them, and in every     *)
(* step every row keeps the active it had and no row is removed.  So a     *)
(* product with active = false stays invisible after any re-import of its  *)
(* sku: no list of items and no detail lookup returns it, and the          *)
(* manufacturer facet of the table counts exactly the active rows.         *)
C30_ReimportKeepsSoftDelete ==
    [][/\ {"active", "created_at", "id"} \cap ConflictUpdates = {}
       /\ \A r \in products :
             \E r2 \in products' : r2.sku = r.sku /\ r2.active = r.active
       /\ \A r \in Range(locals'.products) \cup Range(locals'.product) : r.active
       /\ \A r \in products' :
             ~r.active => \A rows \in ExecLookup(products', BySkuSql(r.sku)) : rows = <<>>
       /\ SumCounts(ExecGroupCount(products', ManufacturersSql))
             = Cardinality({r \in products' : r.active})]_vars

\* A product that was inactive before the imports carries imported columns,
\* is still inactive, and the detail page of its sku has answered 404.
C30_Witness ==
    /\ \E r \in products : ~r.active /\ r.sku = reqQuery.sku /\ r.manufacturer = Unknown
    /\ \E k \in 1..Len(import_history) : import_history[k].rows_imported > 0
    /\ DetailAnswered /\ res.status = 404

----------------------------------------------------------------------------
\* The predicates of a statement that carry a placeholder
Bound(sql) == {k \in 1..Len(sql.where) : sql.where[k].ph # 0}

\* The placeholders of the result query and of the count query
ResultPlaceholders(sql) ==
    ({sql.where[k].ph : k \in Bound(sql)} \cup {sql.orderBy.ph, sql.limitPh, sql.offsetPh}) \ {0}
CountPlaceholders(sql) == {sql.where[k].ph : k \in Bound(sql)}

\* The columns the request filters on
FilteredColumns ==
    (IF TextGiven THEN {"search_vector"} ELSE {})
        \cup (IF Selected(reqQuery.manufacturer) THEN {"manufacturer"} ELSE {})
        \cup (IF Selected(reqQuery.category) THEN {"category"} ELSE {})

\* The value the request gives for the filter on a column
FilterValue(col) ==
    CASE col = "search_vector" -> Trim(reqQuery.q)
      [] col = "manufacturer" -> reqQuery.manufacturer
      [] OTHER -> reqQuery.category

\* Every given filter has one predicate with a placeholder of its own, bound
\* to the filter's value; the statement's text is made of fixed words.
BoundToOwnFilter(sql) ==
    /\ {sql.where[k].col : k \in Bound(sql)} = FilteredColumns
    /\ \A k1, k2 \in Bound(sql) : sql.where[k1].ph = sql.where[k2].ph => k1 = k2
    /\ \A k \in Bound(sql) :
          /\ sql.where[k].ph \in 1..Len(sql.params)
          /\ sql.params[sql.where[k].ph] = FilterValue(sql.where[k].col)
    /\ \A k \in 1..Len(sql.where) :
          /\ sql.where[k].col \in {"active", "search_vector", "manufacturer", "category"}
          /\ sql.where[k].op \in {"= true", "@@ plainto_tsquery", "="}

(* C29: for each of the 8 combinations of given and missing text,          *)
(* manufacturer and category, the statements searchProducts sends use the  *)
(* placeholders $1..$n, n the number of bound values; each filter's        *)
(* placeholder is bound to that filter's value; LIMIT and OFFSET are the   *)
(* last two values of the result query; ORDER BY ts_rank is used exactly   *)
(* when a text is given and its $1 is bound to the trimmed text; and what  *)
(* the user sent is in the bound values only.                              *)
C29_PlaceholdersMatchParams ==
    route = "/products" =>
        \A i \in 1..Len(calls) :
            LET sql == calls[i].sql
                n == Len(sql.params)
            IN  /\ calls[i].name = "result" =>
                      /\ ResultPlaceholders(sql) = 1..n
                      /\ BoundToOwnFilter(sql)
                      /\ sql.limitPh = n - 1 /\ sql.offsetPh = n
                      /\ sql.params[n - 1] = PageSize
                      /\ sql.params[n] = (locals.page - 1) * PageSize
                      /\ TextGiven <=> sql.orderBy.key = "ts_rank"
                      /\ sql.orderBy.key = "ts_rank" =>
                            /\ sql.orderBy.ph = 1
                            /\ sql.params[1] = Trim(reqQuery.q)
                            /\ \E k \in Bound(sql) :
                                  sql.where[k].ph = 1 /\ sql.where[k].col = "search_vector"
                      /\ sql.orderBy.key = "name" => sql.orderBy.ph = 0
                /\ calls[i].name = "count" =>
                      /\ CountPlaceholders(sql) = 1..n
                      /\ BoundToOwnFilter(sql)

\* Text, manufacturer and category are all given, the text with blanks
\* around it, and both statements have been sent.
C29_Witness ==
    /\ route = "/products" /\ "count" \in CallNames
    /\ TextGiven /\ reqQuery.q # Trim(reqQuery.q)
    /\ Selected(reqQuery.manufacturer) /\ Selected(reqQuery.category)
    /\ Len(CallNamed("result").sql.params) = 5

\* Only a category is given.
C29_WitnessCategoryOnly ==
    /\ route = "/products" /\ "count" \in CallNames
    /\ FilteredColumns = {"category"}
    /\ Len(CallNamed("result").sql.params) = 3

----------------------------------------------------------------------------
(* C27: graceful shutdown.  The process exits only after a signal; the     *)
(* pool is asked to end only when the HTTP server has closed; the process  *)
(* exits with code 0 only when the server has closed and the pool has      *)
(* ended, and otherwise with code 1, at the timer; this also when a second *)
(* signal has arrived while the shutdown was in progress.                  *)
C27_GracefulShutdown ==
    /\ srv.state = "exited" => srv.signals > 0
    /\ srv.pool # "open" => srv.server = "closed"
    /\ (srv.state = "exited" /\ srv.exitCode = 0) =>
          (srv.server = "closed" /\ srv.pool = "ended")
    /\ (srv.state = "exited" /\ ~(srv.server = "closed" /\ srv.pool = "ended")) =>
          srv.exitCode = 1
    /\ srv.state = "exited" => srv.exitCode \in {0, 1}

\* The process never exits for another reason than a signal.
ExitsOnlyOnSignal ==
    /\ srv.state = "exited" => srv.signals > 0
    /\ srv.signals = 0 => srv.server = "listening"

C28_WitnessUnhealthy ==
    /\ srv.state = "running" /\ srv.server = "listening"
    /\ "Unexpected database error" \in srv.log
    /\ ~store.reachable
    /\ pc = "done" /\ route = "/health" /\ res = Unhealthy

====
